---- MODULE Spec2Model ----
(***************************************************************************)
(* Model of the polyglot codec: createPolyglot (envelope encoder),         *)
(* processPayload (payload classifier), decodeM4AContainer (box walker)    *)
(* and decodePolyglot (boundary locators and orchestration).               *)
(*                                                                         *)
(* Bytes are naturals 0..255 and a Uint8Array is a sequence of bytes.      *)
(* A JavaScript string is a sequence of UTF-16 code units.  Offsets are    *)
(* 0-based as in the source; At and slice translate to 1-based sequences.  *)
(***************************************************************************)
EXTENDS Integers, Sequences, FiniteSets, TLC

VARIABLES
    containerFile,  \* createPolyglot argument: [name, type, bytes]
    hiddenFile,     \* createPolyglot argument: [name, type, bytes]
    autoConvert,    \* createPolyglot argument
    created,        \* CreatePolyglotResult: [blob, type, newContainerName, made]
    polyglotFile,   \* decodePolyglot argument: [name, type, bytes]
    options,        \* decodePolyglot argument: executableType or NoOption
    offset,         \* decodeM4AContainer local `offset`
    splitIndex,     \* decodePolyglot local `splitIndex`
    payload,        \* the Uint8Array handed to processPayload
    boxes,          \* history: the currentBoxStart of every box header read
    decoded,        \* outcome of processPayload / decodePolyglot
    pc,             \* position of the running operation
    decodeFile,     \* App state: the file selected for decoding, or NoFile
    extractedFile,  \* App state: the DecodedFile shown, or NullFile
    isDecoding,     \* App state
    decodeError,    \* App state: the message shown, or NullError
    useAiDecode,    \* App state
    decodeStatus,   \* App state
    isM4aFile,      \* App state
    executableType, \* App state: 'exe' or 'apk'
    oracleResponse, \* what generateContent yielded, or NoResponse
    aiDecoded,      \* outcome of decodePolyglotWithAI
    captured,       \* the state the running handleDecodeFile closed over
    oracleCalls,    \* history: the calls of generateContent in this decode
    polyglotMode,   \* App state: 'create', 'decode' or 'convert'
    isOpen,         \* App state isAssistantOpen, the modal's isOpen property
    chat,           \* AiAssistantModal state: the Chat, or NullChat
    messages,       \* AiAssistantModal state: Message[]
    input,          \* AiAssistantModal state
    isLoading,      \* AiAssistantModal state
    error,          \* AiAssistantModal state: the message shown, or NullError
    sends,          \* the calls of handleSend that got past its first line
    renderError     \* an exception left a state updater while React rendered

chatVars == <<isOpen, chat, messages, input, isLoading, error, sends, renderError>>

appVars == <<decodeFile, extractedFile, isDecoding, decodeError, useAiDecode,
             decodeStatus, isM4aFile, executableType, oracleResponse,
             aiDecoded, captured,
             oracleCalls, polyglotMode, chatVars>>

vars == <<containerFile, hiddenFile, autoConvert, created, polyglotFile,
          options, offset, splitIndex, payload, boxes, decoded, pc, appVars>>

----------------------------------------------------------------------------
(* Uint8Array and Array primitives *)

At(arr, i) == arr[i + 1]

Min(a, b) == IF a < b THEN a ELSE b

Max(a, b) == IF a > b THEN a ELSE b

\* TypedArray.prototype.slice(begin, end) for non-negative arguments:
\* both ends are clamped to the array length.
slice(arr, begin, end) ==
    SubSeq(arr, Min(begin, Len(arr)) + 1, Min(end, Len(arr)))

sliceFrom(arr, begin) == slice(arr, begin, Len(arr))

RECURSIVE matchAt(_, _, _, _)
matchAt(haystack, needle, i, j) ==
    IF j >= Len(needle) THEN TRUE
    ELSE IF At(haystack, i + j) # At(needle, j) THEN FALSE
    ELSE matchAt(haystack, needle, i, j + 1)

\* The first i from start on, i <= haystack.length - needle.length, at which
\* the needle matches, or -1.
findSequence(haystack, needle, start) ==
    LET found == { i \in start..(Len(haystack) - Len(needle)) :
                        matchAt(haystack, needle, i, 0) }
    IN IF found = {} THEN -1
       ELSE CHOOSE i \in found : \A k \in found : i <= k

\* Variant: the field read little-endian.
getUint32LittleEndian(arr, pos) ==
    LET high == At(arr, pos + 3) * 256 + At(arr, pos + 2)
        low  == At(arr, pos + 1) * 256 + At(arr, pos)
    IN IF high >= 16384 THEN 1073741824 ELSE high * 65536 + low

\* DataView.getUint32(pos, false): big-endian.  Fields of 2^30 and above are
\* all represented by 2^30: the integers of the checker are 32-bit, every
\* buffer of the model is far shorter than 2^30, and the code only compares
\* such a field with buffer lengths, adds it to an offset within the buffer,
\* or slices with it.
getUint32(arr, pos) ==
    LET high == At(arr, pos) * 256 + At(arr, pos + 1)
        low  == At(arr, pos + 2) * 256 + At(arr, pos + 3)
    IN IF high >= 16384 THEN 1073741824 ELSE high * 65536 + low

\* DataView.setUint32(0, n, false) on a fresh 4-byte buffer.
setUint32(n) ==
    <<(n \div 16777216) % 256, (n \div 65536) % 256, (n \div 256) % 256, n % 256>>

----------------------------------------------------------------------------
(* String literals of the source, as UTF-16 code units *)

S_hidden_file_dot == <<104, 105, 100, 100, 101, 110, 45, 102, 105, 108, 101, 46>>
S_hidden_dot == <<104, 105, 100, 100, 101, 110, 46>>
S_dat == <<100, 97, 116>>
S_octet_stream == <<97, 112, 112, 108, 105, 99, 97, 116, 105, 111, 110, 47, 111,
                    99, 116, 101, 116, 45, 115, 116, 114, 101, 97, 109>>
S_image_png == <<105, 109, 97, 103, 101, 47, 112, 110, 103>>
S_image_jpeg == <<105, 109, 97, 103, 101, 47, 106, 112, 101, 103>>
S_image_gif == <<105, 109, 97, 103, 101, 47, 103, 105, 102>>
S_application_zip == <<97, 112, 112, 108, 105, 99, 97, 116, 105, 111, 110, 47,
                       122, 105, 112>>
S_application_pdf == <<97, 112, 112, 108, 105, 99, 97, 116, 105, 111, 110, 47,
                       112, 100, 102>>
S_application_exe == <<97, 112, 112, 108, 105, 99, 97, 116, 105, 111, 110, 47,
                       118, 110, 100, 46, 109, 105, 99, 114, 111, 115, 111, 102,
                       116, 46, 112, 111, 114, 116, 97, 98, 108, 101, 45, 101,
                       120, 101, 99, 117, 116, 97, 98, 108, 101>>
S_application_apk == <<97, 112, 112, 108, 105, 99, 97, 116, 105, 111, 110, 47,
                       118, 110, 100, 46, 97, 110, 100, 114, 111, 105, 100, 46,
                       112, 97, 99, 107, 97, 103, 101, 45, 97, 114, 99, 104,
                       105, 118, 101>>
S_name_key == <<110, 97, 109, 101>>
S_type_key == <<116, 121, 112, 101>>

----------------------------------------------------------------------------
(* The signature registry, in insertion (for..in) order *)

\* Variant: the APK entry takes the place of the ZIP entry in the table order.
signaturesApkFirst == <<
    [key |-> "PNG",    sig |-> <<137, 80, 78, 71, 13, 10, 26, 10>>,
     mime |-> S_image_png,       ext |-> <<112, 110, 103>>],
    [key |-> "JPEG",   sig |-> <<255, 216, 255>>,
     mime |-> S_image_jpeg,      ext |-> <<106, 112, 103>>],
    [key |-> "GIF87a", sig |-> <<71, 73, 70, 56, 55, 97>>,
     mime |-> S_image_gif,       ext |-> <<103, 105, 102>>],
    [key |-> "GIF89a", sig |-> <<71, 73, 70, 56, 57, 97>>,
     mime |-> S_image_gif,       ext |-> <<103, 105, 102>>],
    [key |-> "APK",    sig |-> <<80, 75, 3, 4>>,
     mime |-> S_application_apk, ext |-> <<97, 112, 107>>],
    [key |-> "PDF",    sig |-> <<37, 80, 68, 70>>,
     mime |-> S_application_pdf, ext |-> <<112, 100, 102>>],
    [key |-> "EXE",    sig |-> <<77, 90>>,
     mime |-> S_application_exe, ext |-> <<101, 120, 101>>],
    [key |-> "ZIP",    sig |-> <<80, 75, 3, 4>>,
     mime |-> S_application_zip, ext |-> <<122, 105, 112>>] >>

signatures == <<
    [key |-> "PNG",    sig |-> <<137, 80, 78, 71, 13, 10, 26, 10>>,
     mime |-> S_image_png,       ext |-> <<112, 110, 103>>],
    [key |-> "JPEG",   sig |-> <<255, 216, 255>>,
     mime |-> S_image_jpeg,      ext |-> <<106, 112, 103>>],
    [key |-> "GIF87a", sig |-> <<71, 73, 70, 56, 55, 97>>,
     mime |-> S_image_gif,       ext |-> <<103, 105, 102>>],
    [key |-> "GIF89a", sig |-> <<71, 73, 70, 56, 57, 97>>,
     mime |-> S_image_gif,       ext |-> <<103, 105, 102>>],
    [key |-> "ZIP",    sig |-> <<80, 75, 3, 4>>,
     mime |-> S_application_zip, ext |-> <<122, 105, 112>>],
    [key |-> "PDF",    sig |-> <<37, 80, 68, 70>>,
     mime |-> S_application_pdf, ext |-> <<112, 100, 102>>],
    [key |-> "EXE",    sig |-> <<77, 90>>,
     mime |-> S_application_exe, ext |-> <<101, 120, 101>>],
    [key |-> "APK",    sig |-> <<80, 75, 3, 4>>,
     mime |-> S_application_apk, ext |-> <<97, 112, 107>>] >>

----------------------------------------------------------------------------
(* TextEncoder / TextDecoder (UTF-8) *)

IsHighSurrogate(c) == c >= 55296 /\ c <= 56319

IsLowSurrogate(c) == c >= 56320 /\ c <= 57343

Utf8OfCodePoint(cp) ==
    IF cp < 128 THEN <<cp>>
    ELSE IF cp < 2048 THEN <<192 + (cp \div 64), 128 + (cp % 64)>>
    ELSE IF cp < 65536
        THEN <<224 + (cp \div 4096), 128 + ((cp \div 64) % 64), 128 + (cp % 64)>>
    ELSE <<240 + (cp \div 262144), 128 + ((cp \div 4096) % 64),
           128 + ((cp \div 64) % 64), 128 + (cp % 64)>>

\* The end of the run of ASCII bytes or code units that starts at b[i] < 128: the least
\* j > i that is past the end of b or at which b[j] >= 128.
AsciiRunEnd(b, i) ==
    CHOOSE j \in (i + 1)..(Len(b) + 1) :
        /\ j = Len(b) + 1 \/ b[j] >= 128
        /\ \A k \in (i + 1)..(j - 1) : b[k] < 128

\* new TextEncoder().encode(str): a surrogate pair becomes one 4-byte
\* sequence, a lone surrogate becomes U+FFFD (EF BF BD).
RECURSIVE TextEncode(_, _)
TextEncode(str, i) ==
    IF i > Len(str) THEN <<>>
    ELSE LET c == str[i] IN
        IF IsHighSurrogate(c) /\ i < Len(str) /\ IsLowSurrogate(str[i + 1])
            THEN Utf8OfCodePoint(65536 + (c - 55296) * 1024 + (str[i + 1] - 56320))
                    \o TextEncode(str, i + 2)
        ELSE IF IsHighSurrogate(c) \/ IsLowSurrogate(c)
            THEN <<239, 191, 189>> \o TextEncode(str, i + 1)
        \* a run of ASCII code units encodes to the same bytes
        ELSE IF c < 128
            THEN SubSeq(str, i, AsciiRunEnd(str, i) - 1)
                    \o TextEncode(str, AsciiRunEnd(str, i))
        ELSE Utf8OfCodePoint(c) \o TextEncode(str, i + 1)

IsCont(b, lo, hi) == b >= lo /\ b <= hi

CodeUnitsOfCodePoint(cp) ==
    IF cp < 65536 THEN <<cp>>
    ELSE <<55296 + ((cp - 65536) \div 1024), 56320 + ((cp - 65536) % 1024)>>

\* The WHATWG UTF-8 decoder in replacement (non-fatal) mode: an ill-formed
\* sequence yields U+FFFD and the offending byte is reprocessed.
RECURSIVE Utf8Decode(_, _)
Utf8Decode(b, i) ==
    IF i > Len(b) THEN <<>>
    ELSE LET
        c  == b[i]
        n  == Len(b)
        lo == IF c = 224 THEN 160 ELSE IF c = 240 THEN 144 ELSE 128
        hi == IF c = 237 THEN 159 ELSE IF c = 244 THEN 143 ELSE 191
        need == IF c >= 194 /\ c <= 223 THEN 1
                ELSE IF c >= 224 /\ c <= 239 THEN 2
                ELSE IF c >= 240 /\ c <= 244 THEN 3 ELSE 0
        ok1 == i + 1 <= n /\ IsCont(b[i + 1], lo, hi)
        ok2 == ok1 /\ i + 2 <= n /\ IsCont(b[i + 2], 128, 191)
        ok3 == ok2 /\ i + 3 <= n /\ IsCont(b[i + 3], 128, 191)
    IN
        \* a run of ASCII bytes decodes to the same code units
        IF c < 128 THEN SubSeq(b, i, AsciiRunEnd(b, i) - 1)
                            \o Utf8Decode(b, AsciiRunEnd(b, i))
        ELSE IF need = 0 THEN <<65533>> \o Utf8Decode(b, i + 1)
        ELSE IF ~ok1 THEN <<65533>> \o Utf8Decode(b, i + 1)
        ELSE IF need = 1
            THEN <<(c - 192) * 64 + (b[i + 1] - 128)>> \o Utf8Decode(b, i + 2)
        ELSE IF ~ok2 THEN <<65533>> \o Utf8Decode(b, i + 2)
        ELSE IF need = 2
            THEN <<(c - 224) * 4096 + (b[i + 1] - 128) * 64 + (b[i + 2] - 128)>>
                    \o Utf8Decode(b, i + 3)
        ELSE IF ~ok3 THEN <<65533>> \o Utf8Decode(b, i + 3)
        ELSE CodeUnitsOfCodePoint((c - 240) * 262144 + (b[i + 1] - 128) * 4096
                                    + (b[i + 2] - 128) * 64 + (b[i + 3] - 128))
                \o Utf8Decode(b, i + 4)

\* new TextDecoder().decode(bytes): UTF-8, non-fatal, a leading BOM is dropped.
TextDecode(b) ==
    LET s == Utf8Decode(b, 1)
    IN IF Len(s) > 0 /\ s[1] = 65279 THEN Tail(s) ELSE s

----------------------------------------------------------------------------
(* JSON.stringify of the metadata object *)

HexDigit(n) == IF n < 10 THEN 48 + n ELSE 87 + n

UnicodeEscape(c) ==
    <<92, 117, HexDigit(c \div 4096), HexDigit((c \div 256) % 16),
      HexDigit((c \div 16) % 16), HexDigit(c % 16)>>

\* A code unit QuoteJSONString copies as it is.
IsUnescaped(c) ==
    c >= 32 /\ c # 34 /\ c # 92 /\ ~IsHighSurrogate(c) /\ ~IsLowSurrogate(c)

\* The end of the run of copied code units that starts at str[i]: the least
\* j > i that is past the end of str or at which str[j] is not copied.
UnescapedRunEnd(str, i) ==
    CHOOSE j \in (i + 1)..(Len(str) + 1) :
        /\ j = Len(str) + 1 \/ ~IsUnescaped(str[j])
        /\ \A k \in (i + 1)..(j - 1) : IsUnescaped(str[k])

\* QuoteJSONString: the body between the quotes.
RECURSIVE QuoteChars(_, _)
QuoteChars(str, i) ==
    IF i > Len(str) THEN <<>>
    ELSE LET c == str[i] IN
        IF IsUnescaped(c)
            THEN SubSeq(str, i, UnescapedRunEnd(str, i) - 1)
                    \o QuoteChars(str, UnescapedRunEnd(str, i))
        ELSE IF IsHighSurrogate(c) /\ i < Len(str) /\ IsLowSurrogate(str[i + 1])
            THEN <<c, str[i + 1]>> \o QuoteChars(str, i + 2)
        ELSE (CASE c = 8  -> <<92, 98>>
                [] c = 9  -> <<92, 116>>
                [] c = 10 -> <<92, 110>>
                [] c = 12 -> <<92, 102>>
                [] c = 13 -> <<92, 114>>
                [] c = 34 -> <<92, 34>>
                [] c = 92 -> <<92, 92>>
                [] OTHER  -> IF c < 32 \/ IsHighSurrogate(c) \/ IsLowSurrogate(c)
                                THEN UnicodeEscape(c) ELSE <<c>>)
             \o QuoteChars(str, i + 1)

QuoteJSONString(str) == <<34>> \o QuoteChars(str, 1) \o <<34>>

\* JSON.stringify({ name, type }): own keys in insertion order, no spaces.
JSONStringifyMetadata(metadata) ==
    <<123>> \o QuoteJSONString(S_name_key) \o <<58>> \o QuoteJSONString(metadata.name)
        \o <<44>> \o QuoteJSONString(S_type_key) \o <<58>> \o QuoteJSONString(metadata.type)
        \o <<125>>

----------------------------------------------------------------------------
(* JSON.parse *)

\* A Number read from JSON text: (-1)^neg * mant * 10^exp.
JSONNumber(neg, mant, exp) == [neg |-> neg, mant |-> mant, exp |-> exp]

\* A parsed JSON value.  kind is the value's JSON type; str holds a string's
\* code units; props holds an object's members in source order; num holds a
\* number's value.  The elements of an array are not kept: no caller reads
\* them.
JSONValue(kind, str, props) ==
    [kind |-> kind, str |-> str, props |-> props, num |-> JSONNumber(FALSE, 0, 0)]

JSUndefined == JSONValue("undefined", <<>>, <<>>)

ParseFail == [ok |-> FALSE, pos |-> 0, val |-> JSUndefined]

ParseOk(pos, val) == [ok |-> TRUE, pos |-> pos, val |-> val]

IsJSONWhitespace(c) == c \in {32, 9, 10, 13}

IsDigit(c) == c >= 48 /\ c <= 57

IsHex(c) == IsDigit(c) \/ (c >= 97 /\ c <= 102) \/ (c >= 65 /\ c <= 70)

HexValue(c) == IF IsDigit(c) THEN c - 48 ELSE IF c >= 97 THEN c - 87 ELSE c - 55

RECURSIVE SkipWhitespace(_, _)
SkipWhitespace(s, i) ==
    IF i <= Len(s) /\ IsJSONWhitespace(s[i]) THEN SkipWhitespace(s, i + 1) ELSE i

RECURSIVE SkipDigits(_, _)
SkipDigits(s, i) ==
    IF i <= Len(s) /\ IsDigit(s[i]) THEN SkipDigits(s, i + 1) ELSE i

\* A JSON string body starting after the opening quote at position i.
IsPlainChar(c) == c # 34 /\ c # 92 /\ c >= 32

\* The end of the run of plain characters that starts at the plain s[i]: the
\* least j > i that is past the end of s or at which s[j] is not plain.
PlainRunEnd(s, i) ==
    CHOOSE j \in (i + 1)..(Len(s) + 1) :
        /\ j = Len(s) + 1 \/ ~IsPlainChar(s[j])
        /\ \A k \in (i + 1)..(j - 1) : IsPlainChar(s[k])

RECURSIVE ParseStringChars(_, _, _)
ParseStringChars(s, i, acc) ==
    IF i > Len(s) THEN ParseFail
    ELSE LET c == s[i] IN
        IF c = 34 THEN ParseOk(i + 1, JSONValue("string", acc, <<>>))
        ELSE IF c < 32 THEN ParseFail
        ELSE IF c # 92
            \* the characters up to the next quote, backslash or control
            \* character are taken as they are
            THEN ParseStringChars(s, PlainRunEnd(s, i),
                                  acc \o SubSeq(s, i, PlainRunEnd(s, i) - 1))
        ELSE IF i + 1 > Len(s) THEN ParseFail
        ELSE LET e == s[i + 1] IN
            CASE e = 34  -> ParseStringChars(s, i + 2, Append(acc, 34))
              [] e = 92  -> ParseStringChars(s, i + 2, Append(acc, 92))
              [] e = 47  -> ParseStringChars(s, i + 2, Append(acc, 47))
              [] e = 98  -> ParseStringChars(s, i + 2, Append(acc, 8))
              [] e = 102 -> ParseStringChars(s, i + 2, Append(acc, 12))
              [] e = 110 -> ParseStringChars(s, i + 2, Append(acc, 10))
              [] e = 114 -> ParseStringChars(s, i + 2, Append(acc, 13))
              [] e = 116 -> ParseStringChars(s, i + 2, Append(acc, 9))
              [] e = 117 ->
                    IF i + 5 <= Len(s) /\ IsHex(s[i + 2]) /\ IsHex(s[i + 3])
                                       /\ IsHex(s[i + 4]) /\ IsHex(s[i + 5])
                    THEN ParseStringChars(s, i + 6,
                            Append(acc, HexValue(s[i + 2]) * 4096
                                        + HexValue(s[i + 3]) * 256
                                        + HexValue(s[i + 4]) * 16
                                        + HexValue(s[i + 5])))
                    ELSE ParseFail
              [] OTHER   -> ParseFail

\* The decimal digits s[i] .. s[j - 1] appended to the value acc.  A value of
\* nine digits is not extended further: the numbers of the model are
\* shorter.
RECURSIVE DigitsValue(_, _, _, _)
DigitsValue(s, i, j, acc) ==
    IF i >= j THEN acc
    ELSE DigitsValue(s, i + 1, j,
                     IF acc >= 100000000 THEN acc ELSE acc * 10 + (s[i] - 48))

\* The value of the number whose integer digits are s[i1 .. i2 - 1], whose
\* fraction digits, if any, are s[i2 + 1 .. i3 - 1] and whose exponent
\* digits, if any, are s[e1 .. i4 - 1].
NumberValue(s, i, i1, i2, hasFrac, i3, hasExp, e1, i4) ==
    JSONNumber(i1 > i,
               IF hasFrac THEN DigitsValue(s, i2 + 1, i3, DigitsValue(s, i1, i2, 0))
               ELSE DigitsValue(s, i1, i2, 0),
               (IF ~hasExp THEN 0
                ELSE IF s[e1 - 1] = 45 THEN 0 - DigitsValue(s, e1, i4, 0)
                ELSE DigitsValue(s, e1, i4, 0))
               - (IF hasFrac THEN i3 - (i2 + 1) ELSE 0))

\* number = [-] (0 | [1-9][0-9]*) [. [0-9]+] [(e|E) [+|-] [0-9]+]
ParseNumber(s, i) ==
    LET n  == Len(s)
        i1 == IF i <= n /\ s[i] = 45 THEN i + 1 ELSE i
        i2 == IF i1 <= n /\ s[i1] = 48 THEN i1 + 1
              ELSE IF i1 <= n /\ IsDigit(s[i1]) THEN SkipDigits(s, i1)
              ELSE 0
        hasFrac == i2 # 0 /\ i2 <= n /\ s[i2] = 46
        i3 == IF ~hasFrac THEN i2
              ELSE IF SkipDigits(s, i2 + 1) > i2 + 1 THEN SkipDigits(s, i2 + 1)
              ELSE 0
        hasExp == i3 # 0 /\ i3 <= n /\ s[i3] \in {101, 69}
        e1 == IF hasExp /\ i3 + 1 <= n /\ s[i3 + 1] \in {43, 45}
              THEN i3 + 2 ELSE i3 + 1
        i4 == IF ~hasExp THEN i3
              ELSE IF SkipDigits(s, e1) > e1 THEN SkipDigits(s, e1)
              ELSE 0
    IN IF i4 = 0 THEN ParseFail
       ELSE ParseOk(i4, [JSONValue("number", <<>>, <<>>) EXCEPT
                            !.num = NumberValue(s, i, i1, i2, hasFrac, i3, hasExp, e1, i4)])

ParseLiteral(s, i, word, kind) ==
    IF i + Len(word) - 1 <= Len(s) /\ SubSeq(s, i, i + Len(word) - 1) = word
    THEN ParseOk(i + Len(word), JSONValue(kind, <<>>, <<>>))
    ELSE ParseFail

RECURSIVE ParseValue(_, _), ParseElements(_, _), ParseMembers(_, _, _)

\* A JSON value starting at or after position i (leading whitespace allowed).
ParseValue(s, i) ==
    LET j == SkipWhitespace(s, i) IN
    IF j > Len(s) THEN ParseFail
    ELSE LET c == s[j] IN
        CASE c = 123 ->
                LET k == SkipWhitespace(s, j + 1) IN
                IF k <= Len(s) /\ s[k] = 125
                THEN ParseOk(k + 1, JSONValue("object", <<>>, <<>>))
                ELSE ParseMembers(s, k, <<>>)
          [] c = 91 ->
                LET k == SkipWhitespace(s, j + 1) IN
                IF k <= Len(s) /\ s[k] = 93
                THEN ParseOk(k + 1, JSONValue("array", <<>>, <<>>))
                ELSE ParseElements(s, k)
          [] c = 34  -> ParseStringChars(s, j + 1, <<>>)
          [] c = 116 -> ParseLiteral(s, j, <<116, 114, 117, 101>>, "boolean")
          [] c = 102 -> ParseLiteral(s, j, <<102, 97, 108, 115, 101>>, "boolean")
          [] c = 110 -> ParseLiteral(s, j, <<110, 117, 108, 108>>, "null")
          [] c = 45 \/ IsDigit(c) -> ParseNumber(s, j)
          [] OTHER -> ParseFail

\* value (, value)* ] with the first value starting at i.
ParseElements(s, i) ==
    LET v == ParseValue(s, i) IN
    IF ~v.ok THEN ParseFail
    ELSE LET k == SkipWhitespace(s, v.pos) IN
        IF k > Len(s) THEN ParseFail
        ELSE IF s[k] = 93 THEN ParseOk(k + 1, JSONValue("array", <<>>, <<>>))
        ELSE IF s[k] = 44 THEN ParseElements(s, k + 1)
        ELSE ParseFail

\* string : value (, string : value)* } with the first key starting at i.
ParseMembers(s, i, props) ==
    LET j == SkipWhitespace(s, i) IN
    IF j > Len(s) \/ s[j] # 34 THEN ParseFail
    ELSE LET key == ParseStringChars(s, j + 1, <<>>) IN
        IF ~key.ok THEN ParseFail
        ELSE LET c == SkipWhitespace(s, key.pos) IN
            IF c > Len(s) \/ s[c] # 58 THEN ParseFail
            ELSE LET v == ParseValue(s, c + 1) IN
                IF ~v.ok THEN ParseFail
                ELSE LET k  == SkipWhitespace(s, v.pos)
                         ps == Append(props, [key |-> key.val.str, val |-> v.val])
                     IN
                    IF k > Len(s) THEN ParseFail
                    ELSE IF s[k] = 125 THEN ParseOk(k + 1, JSONValue("object", <<>>, ps))
                    ELSE IF s[k] = 44 THEN ParseMembers(s, k + 1, ps)
                    ELSE ParseFail

\* JSON.parse(text): ok = FALSE stands for the SyntaxError it throws.
JSONParse(text) ==
    LET v == ParseValue(text, 1) IN
    IF v.ok /\ SkipWhitespace(text, v.pos) > Len(text) THEN v ELSE ParseFail

\* value[key] for a parsed value that is not null: the last member with that
\* key for an object, undefined otherwise.
RECURSIVE GetProperty(_, _, _)
GetProperty(value, key, i) ==
    IF i = 0 THEN JSUndefined
    ELSE IF value.props[i].key = key THEN value.props[i].val
    ELSE GetProperty(value, key, i - 1)

----------------------------------------------------------------------------
(* processPayload *)

\* A DecodedFile { blob, name, type, size }; blob is the Blob's content.
DecodedFile(fileData, name, type) ==
    [blob |-> fileData, name |-> name, type |-> type, size |-> Len(fileData)]

\* The JavaScript null returned where no DecodedFile is produced.
NullFile == [blob |-> <<>>, name |-> <<>>, type |-> <<>>, size |-> -1]

\* How a block of statements ends: it returns a file, it completes without
\* returning (execution continues after it), or it throws.
Returned(file) == [kind |-> "return", file |-> file]

Completed == [kind |-> "complete", file |-> NullFile]

Thrown == [kind |-> "throw", file |-> NullFile]

\* Variant: a record with no bytes after it is accepted.
EnvelopeTryAcceptEmpty(payloadBytes) ==
    LET metadataLength == getUint32(payloadBytes, 0) IN
    IF ~(Len(payloadBytes) >= 4 + metadataLength /\ metadataLength > 0
            /\ metadataLength < Len(payloadBytes))
    THEN Completed
    ELSE LET fileData == sliceFrom(payloadBytes, 4 + metadataLength)
             Checked(name, type) ==
                IF name.kind = "string" /\ type.kind = "string"
                THEN Returned(DecodedFile(fileData, name.str, type.str))
                ELSE Completed
             Parsed(metadata) ==
                IF ~metadata.ok \/ metadata.val.kind = "null" THEN Thrown
                ELSE Checked(GetProperty(metadata.val, S_name_key, Len(metadata.val.props)),
                             GetProperty(metadata.val, S_type_key, Len(metadata.val.props)))
         IN Parsed(JSONParse(TextDecode(slice(payloadBytes, 4, 4 + metadataLength))))

\* The body of the try block: decode the custom metadata header.
EnvelopeTry(payloadBytes) ==
    LET metadataLength == getUint32(payloadBytes, 0) IN
    IF ~(Len(payloadBytes) >= 4 + metadataLength /\ metadataLength > 0
            /\ metadataLength < Len(payloadBytes))
    THEN Completed
    ELSE LET metadataBuffer == slice(payloadBytes, 4, 4 + metadataLength)
             metadataString == TextDecode(metadataBuffer)
             fileData       == sliceFrom(payloadBytes, 4 + metadataLength)
             \* if (metadata.name && typeof ... && fileData.length > 0)
             Checked(name, type) ==
                IF name.kind = "string" /\ type.kind = "string" /\ Len(fileData) > 0
                THEN Returned(DecodedFile(fileData, name.str, type.str))
                ELSE Completed
             \* the statements after metadata = JSON.parse(metadataString)
             Parsed(metadata) ==
                IF ~metadata.ok THEN Thrown                  \* SyntaxError
                ELSE IF metadata.val.kind = "null" THEN Thrown  \* TypeError on null.name
                ELSE Checked(GetProperty(metadata.val, S_name_key, Len(metadata.val.props)),
                             GetProperty(metadata.val, S_type_key, Len(metadata.val.props)))
         IN Parsed(JSONParse(metadataString))

\* We accept a signature if it's found within the first 16 bytes.
SignatureWindow == 16

\* Variant: of the entries found in the window, the one at the lowest
\* offset is taken.
SignatureScanLowestOffset(payloadBytes, t) ==
    LET At0(u) == findSequence(payloadBytes, signatures[u].sig, 0)
        hits == { u \in t..Len(signatures) : At0(u) # -1 /\ At0(u) < 16 }
        Taken(u) ==
            Returned(DecodedFile(sliceFrom(payloadBytes, At0(u)),
                                 S_hidden_file_dot \o signatures[u].ext,
                                 signatures[u].mime))
    IN IF hits = {} THEN Completed
       ELSE Taken(CHOOSE u \in hits :
                    \A v \in hits : At0(u) < At0(v) \/ (At0(u) = At0(v) /\ u <= v))

\* Variant: a signature at offset 16 is accepted too.
RECURSIVE SignatureScanInclusive(_, _)
SignatureScanInclusive(payloadBytes, t) ==
    IF t > Len(signatures) THEN Completed
    ELSE LET startIndex == findSequence(payloadBytes, signatures[t].sig, 0) IN
        IF startIndex # -1 /\ startIndex <= SignatureWindow
        THEN Returned(DecodedFile(sliceFrom(payloadBytes, startIndex),
                                  S_hidden_file_dot \o signatures[t].ext,
                                  signatures[t].mime))
        ELSE SignatureScanInclusive(payloadBytes, t + 1)

\* The for..in loop over the registry, from entry t on.
RECURSIVE SignatureScan(_, _)
SignatureScan(payloadBytes, t) ==
    IF t > Len(signatures) THEN Completed
    ELSE LET startIndex == findSequence(payloadBytes, signatures[t].sig, 0) IN
        IF startIndex # -1 /\ startIndex < SignatureWindow
        THEN Returned(DecodedFile(sliceFrom(payloadBytes, startIndex),
                                  S_hidden_file_dot \o signatures[t].ext,
                                  signatures[t].mime))
        ELSE SignatureScan(payloadBytes, t + 1)

\* The outcome of processPayload: file is the returned DecodedFile or
\* NullFile, tier names the return statement that produced it, and escaped
\* tells whether an exception left the function.
Outcome(file, tier, escaped) == [file |-> file, tier |-> tier, escaped |-> escaped]

\* Variant: no generic tier after the signature detection.
signatureOrGenericNoGeneric(payloadBytes) ==
    IF Len(payloadBytes) > 0
    THEN LET Scanned(scan) ==
                IF scan.kind = "return" THEN Outcome(scan.file, "signature", FALSE)
                ELSE Outcome(NullFile, "none", FALSE)
         IN Scanned(SignatureScan(payloadBytes, 1))
    ELSE Outcome(NullFile, "none", FALSE)

\* Variant: the generic tier without the guard on the payload length.
signatureOrGenericUnguarded(payloadBytes) ==
    LET Scanned(scan) ==
            IF scan.kind = "return" THEN Outcome(scan.file, "signature", FALSE)
            ELSE Outcome(DecodedFile(payloadBytes, S_hidden_file_dot \o S_dat,
                                     S_octet_stream),
                         "generic", FALSE)
    IN Scanned(SignatureScan(payloadBytes, 1))

\* The statements after the try block: signature detection, then the
\* generic binary file, then null.
signatureOrGeneric(payloadBytes) ==
    IF Len(payloadBytes) > 0
    THEN LET Scanned(scan) ==
                IF scan.kind = "return" THEN Outcome(scan.file, "signature", FALSE)
                ELSE Outcome(DecodedFile(payloadBytes, S_hidden_file_dot \o S_dat,
                                         S_octet_stream),
                             "generic", FALSE)
         IN Scanned(SignatureScan(payloadBytes, 1))
    ELSE Outcome(NullFile, "none", FALSE)

\* Variant: no catch clause around the envelope decoding.
processPayloadNoCatch(payloadBytes) ==
    LET Tried(envelope) ==
            IF envelope.kind = "return" THEN Outcome(envelope.file, "envelope", FALSE)
            ELSE IF envelope.kind = "throw" THEN Outcome(NullFile, "none", TRUE)
            ELSE signatureOrGeneric(payloadBytes)
    IN Tried(IF Len(payloadBytes) > 4 THEN EnvelopeTry(payloadBytes) ELSE Completed)

\* Variant: signature detection tried before the metadata header.
processPayloadSignatureFirst(payloadBytes) ==
    LET Tried(scan, envelope) ==
            IF Len(payloadBytes) > 0 /\ scan.kind = "return"
            THEN Outcome(scan.file, "signature", FALSE)
            ELSE IF envelope.kind = "return"
                THEN Outcome(envelope.file, "envelope", FALSE)
            ELSE signatureOrGeneric(payloadBytes)
    IN Tried(SignatureScan(payloadBytes, 1),
             IF Len(payloadBytes) > 4 THEN EnvelopeTry(payloadBytes) ELSE Completed)

\* processPayload(payload)
processPayload(payloadBytes) ==
    LET Tried(envelope) ==
            IF envelope.kind = "return" THEN Outcome(envelope.file, "envelope", FALSE)
            \* catch (error): a throw is logged and execution continues below
            ELSE signatureOrGeneric(payloadBytes)
    IN Tried(IF Len(payloadBytes) > 4 THEN EnvelopeTry(payloadBytes) ELSE Completed)

\* The outcome recorded before an operation has run.
NotRun == Outcome(NullFile, "pending", FALSE)

----------------------------------------------------------------------------
(* createPolyglot *)

\* A File: its name, its media type, its content and its size.
File(bytes, name, type) ==
    [name |-> name, type |-> type, bytes |-> bytes, size |-> Len(bytes)]

\* The JavaScript null where no File is selected.
NoFile == [name |-> <<>>, type |-> <<>>, bytes |-> <<>>, size |-> -1]

\* String.prototype.startsWith
startsWithString(str, prefix) ==
    Len(str) >= Len(prefix) /\ SubSeq(str, 1, Len(prefix)) = prefix

\* String.prototype.endsWith
endsWithString(str, suffix) ==
    Len(str) >= Len(suffix)
        /\ SubSeq(str, Len(str) - Len(suffix) + 1, Len(str)) = suffix

\* String.prototype.lastIndexOf for a one-unit search string: 0-based or -1.
RECURSIVE lastIndexOfUnit(_, _, _)
lastIndexOfUnit(str, unit, i) ==
    IF i < 0 THEN -1
    ELSE IF At(str, i) = unit THEN i
    ELSE lastIndexOfUnit(str, unit, i - 1)

\* name.substring(0, name.lastIndexOf('.')) || name
originalNameNoExt(name) ==
    LET dot  == lastIndexOfUnit(name, 46, Len(name) - 1)
        stem == SubSeq(name, 1, Max(dot, 0))
    IN IF stem = <<>> THEN name ELSE stem

isConvertibleText(file) == startsWithString(file.type, <<116, 101, 120, 116, 47>>)

isPoorImageContainer(file) ==
    file.type \in { <<105, 109, 97, 103, 101, 47, 98, 109, 112>>,
                    <<105, 109, 97, 103, 101, 47, 119, 101, 98, 112>>,
                    <<105, 109, 97, 103, 101, 47, 116, 105, 102, 102>> }

needsConversion(file, convert) ==
    convert /\ (isConvertibleText(file) \/ isPoorImageContainer(file))

\* metadata = { name: hiddenFile.name, type: hiddenFile.type || 'application/octet-stream' }
hiddenMetadata(hidden) ==
    [name |-> hidden.name,
     type |-> IF hidden.type = <<>> THEN S_octet_stream ELSE hidden.type]

\* new TextEncoder().encode(JSON.stringify(metadata))
metadataBufferOf(hidden) == TextEncode(JSONStringifyMetadata(hiddenMetadata(hidden)), 1)

\* The value recorded while no polyglot has been made.
NotCreated == [blob |-> <<>>, type |-> <<>>, newContainerName |-> <<>>,
               status |-> "none"]

\* Variant: the length prefix counts the code units of the metadata string
\* instead of the bytes of its encoding.
createPolyglotStringLength(container, hidden, convert, conversion) ==
    IF needsConversion(container, convert) /\ ~conversion.ok
    THEN [blob |-> <<>>, type |-> <<>>, newContainerName |-> <<>>,
          status |-> "rejected"]
    ELSE LET
        newContainerName ==
            IF needsConversion(container, convert)
            THEN originalNameNoExt(container.name) \o <<46, 112, 110, 103>>
            ELSE container.name
        finalContainerFile ==
            IF needsConversion(container, convert)
            THEN File(conversion.bytes, newContainerName, S_image_png)
            ELSE container
        metadataString == JSONStringifyMetadata(hiddenMetadata(hidden))
    IN [blob |-> finalContainerFile.bytes \o setUint32(Len(metadataString))
                    \o metadataBufferOf(hidden) \o hidden.bytes,
        type |-> finalContainerFile.type,
        newContainerName |-> newContainerName, status |-> "resolved"]

\* createPolyglot(containerFile, hiddenFile, autoConvert).  conversion is
\* what the canvas transcoding yields when it is invoked: [ok, bytes].
createPolyglot(container, hidden, convert, conversion) ==
    IF needsConversion(container, convert) /\ ~conversion.ok
    THEN [blob |-> <<>>, type |-> <<>>, newContainerName |-> <<>>,
          status |-> "rejected"]
    ELSE LET
        newContainerName ==
            IF needsConversion(container, convert)
            THEN originalNameNoExt(container.name) \o <<46, 112, 110, 103>>
            ELSE container.name
        finalContainerFile ==
            IF needsConversion(container, convert)
            THEN File(conversion.bytes, newContainerName, S_image_png)
            ELSE container
        containerBuffer == finalContainerFile.bytes
        hiddenBuffer    == hidden.bytes
        metadataBuffer  == metadataBufferOf(hidden)
        metadataLength  == Len(metadataBuffer)
        lengthBuffer    == setUint32(metadataLength)
        combinedArray   == containerBuffer \o lengthBuffer \o metadataBuffer
                                \o hiddenBuffer
    IN [blob |-> combinedArray, type |-> finalContainerFile.type,
        newContainerName |-> newContainerName, status |-> "resolved"]

----------------------------------------------------------------------------
(* decodeM4AContainer *)

\* /^[a-zA-Z0-9\s]{4}$/ on the decoded 4-byte type tag.
IsBoxTypeUnit(c) ==
    \/ (c >= 97 /\ c <= 122) \/ (c >= 65 /\ c <= 90) \/ (c >= 48 /\ c <= 57)
    \/ c \in {9, 10, 11, 12, 13, 32, 160, 5760, 8232, 8233, 8239, 8287, 12288, 65279}
    \/ (c >= 8192 /\ c <= 8202)

isValidBoxType(boxType) ==
    Len(boxType) = 4 /\ \A i \in 1..4 : IsBoxTypeUnit(boxType[i])

\* Variant: the offset is not put back when it has passed the end.
walkBoxNoReset(data, at) ==
    IF ~(at + 8 <= Len(data)) THEN [next |-> at, loop |-> FALSE, read |-> FALSE]
    ELSE LET
        currentBoxStart == at
        boxSize == getUint32(data, at)
        boxType == TextDecode(slice(data, at + 4, at + 8))
        advanced ==
            IF boxSize = 1 THEN at + getUint32(data, at + 12) ELSE at + boxSize
    IN
        IF ~isValidBoxType(boxType) THEN [next |-> at, loop |-> FALSE, read |-> TRUE]
        ELSE IF boxSize = 1 /\ at + 16 > Len(data)
            THEN [next |-> at, loop |-> FALSE, read |-> TRUE]
        ELSE IF boxSize = 1 /\ getUint32(data, at + 8) > 0
            THEN [next |-> at, loop |-> FALSE, read |-> TRUE]
        ELSE IF boxSize = 0
            THEN [next |-> Len(data), loop |-> FALSE, read |-> TRUE]
        ELSE IF advanced > Len(data)
            THEN [next |-> advanced, loop |-> FALSE, read |-> TRUE]
        ELSE [next |-> advanced, loop |-> TRUE, read |-> TRUE]

\* Variant: the high word of an extended size is not looked at.
walkBoxIgnoreHigh(data, at) ==
    IF ~(at + 8 <= Len(data)) THEN [next |-> at, loop |-> FALSE, read |-> FALSE]
    ELSE LET
        currentBoxStart == at
        boxSize == getUint32(data, at)
        boxType == TextDecode(slice(data, at + 4, at + 8))
        advanced ==
            IF boxSize = 1 THEN at + getUint32(data, at + 12) ELSE at + boxSize
    IN
        IF ~isValidBoxType(boxType) THEN [next |-> at, loop |-> FALSE, read |-> TRUE]
        ELSE IF boxSize = 1 /\ at + 16 > Len(data)
            THEN [next |-> at, loop |-> FALSE, read |-> TRUE]
        ELSE IF boxSize = 0
            THEN [next |-> Len(data), loop |-> FALSE, read |-> TRUE]
        ELSE IF advanced > Len(data)
            THEN [next |-> currentBoxStart, loop |-> FALSE, read |-> TRUE]
        ELSE [next |-> advanced, loop |-> TRUE, read |-> TRUE]

\* One evaluation of `while (offset + 8 <= data.length)` and, when it holds,
\* one execution of the loop body, from offset `at`.  next is the value of
\* offset afterwards; loop tells whether the loop goes round again; read
\* tells whether a box header was read.
walkBox(data, at) ==
    IF ~(at + 8 <= Len(data)) THEN [next |-> at, loop |-> FALSE, read |-> FALSE]
    ELSE LET
        currentBoxStart == at
        boxSize == getUint32(data, at)
        boxType == TextDecode(slice(data, at + 4, at + 8))
        advanced ==
            IF boxSize = 1 THEN at + getUint32(data, at + 12) ELSE at + boxSize
    IN
        IF ~isValidBoxType(boxType) THEN [next |-> at, loop |-> FALSE, read |-> TRUE]
        ELSE IF boxSize = 1 /\ at + 16 > Len(data)
            THEN [next |-> at, loop |-> FALSE, read |-> TRUE]
        ELSE IF boxSize = 1 /\ getUint32(data, at + 8) > 0
            THEN [next |-> at, loop |-> FALSE, read |-> TRUE]
        ELSE IF boxSize = 0
            THEN [next |-> Len(data), loop |-> FALSE, read |-> TRUE]
        ELSE IF advanced > Len(data)
            THEN [next |-> currentBoxStart, loop |-> FALSE, read |-> TRUE]
        ELSE [next |-> advanced, loop |-> TRUE, read |-> TRUE]

\* Variant: the EXE entry whatever the hint.
signatureOfHintExe(expectedType) == signatures[7]

\* signatures[expectedType.toUpperCase()]
signatureOfHint(expectedType) ==
    IF expectedType = "exe" THEN signatures[7] ELSE signatures[8]

\* The part of decodeM4AContainer after the loop, for the final offset.
m4aResult(data, finalOffset, expectedType) ==
    LET m4aSplit == finalOffset IN
    IF m4aSplit > 0 /\ m4aSplit < Len(data)
    THEN LET m4aPayload == sliceFrom(data, m4aSplit)
             entry      == signatureOfHint(expectedType)
         IN IF findSequence(m4aPayload, entry.sig, 0) = 0
            THEN DecodedFile(m4aPayload, S_hidden_dot \o entry.ext, entry.mime)
            ELSE NullFile
    ELSE NullFile

----------------------------------------------------------------------------
(* decodePolyglot *)

markers == [
    PNG  |-> [header |-> <<137, 80, 78, 71>>,
              full_eof |-> <<0, 0, 0, 0, 73, 69, 78, 68, 174, 66, 96, 130>>,
              eof_len |-> 12],
    JPEG |-> [header |-> <<255, 216, 255>>, eof |-> <<255, 217>>, eof_len |-> 2],
    GIF  |-> [header |-> <<71, 73, 70>>, eof |-> <<59>>, eof_len |-> 1] ]

RECURSIVE startsWithFrom(_, _, _)
startsWithFrom(arr, prefix, i) ==
    IF i >= Len(prefix) THEN TRUE
    ELSE IF At(arr, i) # At(prefix, i) THEN FALSE
    ELSE startsWithFrom(arr, prefix, i + 1)

startsWith(arr, prefix) ==
    IF Len(arr) < Len(prefix) THEN FALSE ELSE startsWithFrom(arr, prefix, 0)

\* polyglotFile.name.toLowerCase()
toLowerCase(str) ==
    [i \in 1..Len(str) |-> IF str[i] >= 65 /\ str[i] <= 90 THEN str[i] + 32 ELSE str[i]]

isM4A(file) ==
    \/ endsWithString(toLowerCase(file.name), <<46, 109, 52, 97>>)
    \/ file.type = <<97, 117, 100, 105, 111, 47, 109, 112, 52>>

\* Variant: the search stops at the first FF D9.
jpegFirstKnownIndex(data, searchOffset, lastKnownIndex) ==
    IF ~(searchOffset < Len(data)) THEN lastKnownIndex
    ELSE LET tempIndex == findSequence(data, markers.JPEG.eof, searchOffset) IN
        IF tempIndex # -1 THEN tempIndex ELSE lastKnownIndex

\* The JPEG while loop: the index of the last FF D9 found from searchOffset
\* on, or lastKnownIndex when there is none.
RECURSIVE jpegLastKnownIndex(_, _, _)
jpegLastKnownIndex(data, searchOffset, lastKnownIndex) ==
    IF ~(searchOffset < Len(data)) THEN lastKnownIndex
    ELSE LET tempIndex == findSequence(data, markers.JPEG.eof, searchOffset) IN
        IF tempIndex # -1 THEN jpegLastKnownIndex(data, tempIndex + 1, tempIndex)
        ELSE lastKnownIndex

\* Uint8Array.prototype.lastIndexOf(value, fromIndex) for fromIndex >= -length.
RECURSIVE lastIndexOfFrom(_, _, _)
lastIndexOfFrom(arr, value, i) ==
    IF i < 0 THEN -1
    ELSE IF At(arr, i) = value THEN i
    ELSE lastIndexOfFrom(arr, value, i - 1)

lastIndexOf(arr, value, fromIndex) ==
    lastIndexOfFrom(arr, value, Min(fromIndex, Len(arr) - 1))

\* Variant: the boundary put at the start of the terminal chunk.
pngSplitIndexAtMarker(data) ==
    LET eofIndex == findSequence(data, markers.PNG.full_eof, 0) IN
    IF eofIndex # -1 THEN eofIndex ELSE -1

pngSplitIndex(data) ==
    LET eofIndex == findSequence(data, markers.PNG.full_eof, 0) IN
    IF eofIndex # -1 THEN eofIndex + markers.PNG.eof_len ELSE -1

jpegSplitIndex(data) ==
    LET lastKnownIndex == jpegLastKnownIndex(data, 0, -1) IN
    IF lastKnownIndex # -1 THEN lastKnownIndex + markers.JPEG.eof_len ELSE -1

\* Variant: the backward search starts at the last byte.
gifSplitIndexFromLast(data) ==
    LET eofIndex == lastIndexOf(data, markers.GIF.eof[1], Len(data) - 1) IN
    IF eofIndex # -1 THEN eofIndex + markers.GIF.eof_len ELSE -1

gifSplitIndex(data) ==
    LET eofIndex == lastIndexOf(data, markers.GIF.eof[1], Len(data) - 2) IN
    IF eofIndex # -1 THEN eofIndex + markers.GIF.eof_len ELSE -1

\* The if / else-if chain that assigns splitIndex (initially -1).
locateSplitIndex(data) ==
    IF startsWith(data, markers.PNG.header) THEN pngSplitIndex(data)
    ELSE IF startsWith(data, markers.JPEG.header) THEN jpegSplitIndex(data)
    ELSE IF startsWith(data, markers.GIF.header) THEN gifSplitIndex(data)
    ELSE -1

----------------------------------------------------------------------------
(* decodePolyglotWithAI *)

S_splitIndex == <<115, 112, 108, 105, 116, 73, 110, 100, 101, 120>>
S_undefined == <<117, 110, 100, 101, 102, 105, 110, 101, 100>>

\* m * 10^k for k >= 0; a product of nine digits or more is not extended
\* further: every buffer of the model is shorter.
RECURSIVE TimesPow10(_, _)
TimesPow10(m, k) ==
    IF k <= 0 \/ m = 0 \/ m >= 100000000 THEN m ELSE TimesPow10(m * 10, k - 1)

\* floor(m / 10^k) for k >= 0.
RECURSIVE DivPow10(_, _)
DivPow10(m, k) == IF k <= 0 \/ m = 0 THEN m ELSE DivPow10(m \div 10, k - 1)

\* Variant: zero passes the lower bound.
NumberIsNotNegative(n) == ~n.neg \/ n.mant = 0

\* `splitIndex > 0` for a Number.
NumberIsPositive(n) == ~n.neg /\ n.mant > 0

\* `splitIndex < length` for a Number and a buffer length.
NumberLessThan(n, length) ==
    IF n.mant = 0 THEN 0 < length
    ELSE IF n.neg THEN TRUE
    ELSE IF n.exp >= 0 THEN TimesPow10(n.mant, n.exp) < length
    ELSE n.mant < TimesPow10(length, 0 - n.exp)

\* The integer TypedArray.prototype.slice makes of a positive Number: the
\* fraction is dropped.
ToIntegerOrInfinity(n) ==
    IF n.exp >= 0 THEN TimesPow10(n.mant, n.exp) ELSE DivPow10(n.mant, 0 - n.exp)

\* What `await ai.models.generateContent(...)` yields: the promise is
\* rejected, or it resolves to a response whose `text` is a string, or to a
\* response with no text part (`text` is undefined).
Rejected == [kind |-> "rejected", text |-> <<>>]

WithText(text) == [kind |-> "text", text |-> text]

WithoutText == [kind |-> "notext", text |-> <<>>]

\* The outcome of decodePolyglotWithAI: the promise resolves to a
\* DecodedFile or to null (file, with the tier processPayload used), or it is
\* rejected with an Error (thrown, message).
AiResolved(outcome) ==
    [file |-> outcome.file, tier |-> outcome.tier, thrown |-> FALSE, message |-> ""]

AiRejected(message) ==
    [file |-> NullFile, tier |-> "none", thrown |-> TRUE, message |-> message]

\* Variant: the catch block returns null.
aiCatchSwallowed == AiResolved(Outcome(NullFile, "none", FALSE))

\* catch (err) { ...; throw new Error("The AI model failed ...") }
aiCatch == AiRejected("The AI model failed to process the file. Please try again.")

\* decodePolyglotWithAI(polyglotFile), given what generateContent yields.
\* The prompt (containerType, the hex dumps) only feeds the request and is
\* not modelled: every response is possible for every file.
decodePolyglotWithAI(data, response) ==
    LET Classified(outcome) ==
            IF outcome.escaped THEN aiCatch ELSE AiResolved(outcome)
        WithIndex(index) ==
            IF /\ index.kind = "number"
               /\ NumberIsPositive(index.num)
               /\ NumberLessThan(index.num, Len(data))
            THEN Classified(processPayload(
                     sliceFrom(data, ToIntegerOrInfinity(index.num))))
            ELSE AiResolved(Outcome(NullFile, "none", FALSE))
        Parsed(jsonResponse) ==
            \* JSON.parse throws a SyntaxError; reading a property of null
            \* throws a TypeError
            IF ~jsonResponse.ok \/ jsonResponse.val.kind = "null" THEN aiCatch
            ELSE WithIndex(GetProperty(jsonResponse.val, S_splitIndex,
                                       Len(jsonResponse.val.props)))
    IN IF response.kind = "rejected" THEN aiCatch
       ELSE Parsed(JSONParse(IF response.kind = "notext" THEN S_undefined
                             ELSE response.text))

----------------------------------------------------------------------------
(* Inputs *)

\* Hidden file names: "", "a", "MZ", quote-backslash-newline, e-acute then
\* a lone surrogate, a surrogate pair.
HiddenNames ==
    { <<>>, <<97>>, <<77, 90>>, <<34, 92, 10>>, <<233, 55296>>, <<55357, 56832>> }

\* Hidden file media types: "" and "t/x".
HiddenTypes == { <<>>, <<116, 47, 120>> }

\* Hidden file contents: empty, one byte, a JPEG end marker, a GIF trailer
\* byte followed by a byte, the PNG magic.
HiddenContents ==
    { <<>>, <<7>>, <<255, 217>>, <<59, 0>>, <<137, 80, 78, 71, 13, 10, 26, 10>> }

HiddenFiles ==
    { File(c, n, t) : c \in HiddenContents, n \in HiddenNames, t \in HiddenTypes }

\* The largest number of padding bytes put before a magic.
MaxPad == 17

RECURSIVE Pad(_)
Pad(k) == IF k = 0 THEN <<>> ELSE <<1>> \o Pad(k - 1)

\* k padding bytes, the magic of registry entry t, one more byte.
WindowPayload(k, t) == Pad(k) \o signatures[t].sig \o <<2>>

WindowPayloads == { WindowPayload(k, t) : k \in 0..MaxPad, t \in 1..Len(signatures) }

\* The magic of entry t1 at offset 0 directly followed by that of entry t2.
TwoMagicPayloads ==
    { signatures[t1].sig \o signatures[t2].sig :
        t1 \in 1..Len(signatures), t2 \in 1..Len(signatures) }

\* Records that are not an object with a string name and a string type.
BadRecords == {
    <<110, 117, 108, 108>>,                         \* null
    <<55>>,                                         \* 7
    <<91, 93>>,                                     \* []
    <<91, 49, 93>>,                                 \* [1]
    <<34, 115, 34>>,                                \* "s"
    <<116, 114, 117, 101>>,                         \* true
    <<123, 34, 110, 97, 109, 101, 34, 58, 49, 44, 34, 116, 121, 112, 101, 34,
      58, 34, 116, 34, 125>>,                       \* {"name":1,"type":"t"}
    <<123, 34, 110, 97, 109, 101, 34, 58, 34, 97, 34, 125>>,  \* {"name":"a"}
    <<123, 34, 110, 97, 109, 101, 34, 58, 34, 97, 34, 44, 34, 116, 121, 112,
      101, 34, 58, 110, 117, 108, 108, 125>>,       \* {"name":"a","type":null}
    <<123, 34, 110, 97, 109, 101, 34, 58, 34, 97, 34>>,       \* {"name":"a"
    <<123, 39, 110, 97, 109, 101, 39, 58, 39, 97, 39, 44, 39, 116, 121, 112,
      101, 39, 58, 39, 116, 39, 125>>,              \* {'name':'a','type':'t'}
    <<255>>,                                        \* ill-formed UTF-8
    <<123, 34, 110, 97, 109, 101, 34, 58, 34, 97, 34, 44, 34, 116, 121, 112,
      101, 34, 58, 34, 116, 34, 44, 125>> }         \* {"name":"a","type":"t",}

\* Records that are an object with a string name and a string type, with
\* the name and type they carry.
GoodRecords == {
    \* {"name":"a","type":"t"}
    [bytes |-> <<123, 34, 110, 97, 109, 101, 34, 58, 34, 97, 34, 44, 34, 116,
                 121, 112, 101, 34, 58, 34, 116, 34, 125>>,
     name |-> <<97>>, type |-> <<116>>],
    \* the same with whitespace between the tokens
    [bytes |-> <<32, 123, 32, 34, 110, 97, 109, 101, 34, 32, 58, 32, 34, 97,
                 34, 32, 44, 10, 34, 116, 121, 112, 101, 34, 32, 58, 32, 34,
                 116, 34, 32, 125, 32>>,
     name |-> <<97>>, type |-> <<116>>],
    \* {"type":"t","name":"a"}
    [bytes |-> <<123, 34, 116, 121, 112, 101, 34, 58, 34, 116, 34, 44, 34,
                 110, 97, 109, 101, 34, 58, 34, 97, 34, 125>>,
     name |-> <<97>>, type |-> <<116>>],
    \* {"name":1,"name":"MZ","type":""}
    [bytes |-> <<123, 34, 110, 97, 109, 101, 34, 58, 49, 44, 34, 110, 97, 109,
                 101, 34, 58, 34, 77, 90, 34, 44, 34, 116, 121, 112, 101, 34,
                 58, 34, 34, 125>>,
     name |-> <<77, 90>>, type |-> <<>>],
    \* {"name":"A\/","type":"t","x":[1,{"y":null}]}
    [bytes |-> <<123, 34, 110, 97, 109, 101, 34, 58, 34, 92, 117, 48, 48, 52,
                 49, 92, 47, 34, 44, 34, 116, 121, 112, 101, 34, 58, 34, 116,
                 34, 44, 34, 120, 34, 58, 91, 49, 44, 123, 34, 121, 34, 58,
                 110, 117, 108, 108, 125, 93, 125>>,
     name |-> <<65, 47>>, type |-> <<116>>],
    \* a byte order mark, then {"name":"a","type":"t"}
    [bytes |-> <<239, 187, 191, 123, 34, 110, 97, 109, 101, 34, 58, 34, 97,
                 34, 44, 34, 116, 121, 112, 101, 34, 58, 34, 116, 34, 125>>,
     name |-> <<97>>, type |-> <<116>>] }

\* Bytes put after a record.
RecordTails == { <<>>, <<9>>, <<77, 90>> }

\* [u32 big-endian n][record][tail]
Frame(n, record, tail) ==
    <<(n \div 16777216) % 256, (n \div 65536) % 256, (n \div 256) % 256, n % 256>>
        \o record \o tail

\* The same with the length written little-endian.
LittleEndianFrame(n, record, tail) ==
    <<n % 256, (n \div 256) % 256, (n \div 65536) % 256, (n \div 16777216) % 256>>
        \o record \o tail

\* Declared lengths tried with a record and a tail: exact, zero, the whole
\* remainder, and one more than the remainder.
DeclaredLengths(record, tail) ==
    { Len(record), 0, Len(record) + Len(tail), Len(record) + Len(tail) + 1 }

BadRecordPayloads ==
    { Frame(Len(r), r, t) : r \in BadRecords, t \in RecordTails }

GoodRecordPayloads ==
    { Frame(Len(r.bytes), r.bytes, t) : r \in GoodRecords, t \in RecordTails }

MisframedPayloads ==
    UNION { { Frame(n, r.bytes, t) : n \in DeclaredLengths(r.bytes, t) \ {Len(r.bytes)} } :
            r \in GoodRecords, t \in RecordTails }

LittleEndianPayloads ==
    { LittleEndianFrame(Len(r.bytes), r.bytes, t) : r \in GoodRecords, t \in RecordTails }

ShortPayloads == { <<>>, <<0>>, <<0, 0, 1>>, <<0, 0, 0, 1>>, <<0, 0, 0, 0, 1>> }

CraftedPayloads ==
    WindowPayloads \cup TwoMagicPayloads \cup BadRecordPayloads
        \cup GoodRecordPayloads \cup MisframedPayloads \cup LittleEndianPayloads
        \cup ShortPayloads

\* Containers for the payload specification: empty, and four bytes.
PayloadContainers == { File(<<>>, <<99>>, <<>>), File(<<1, 2, 3, 4>>, <<99>>, <<>>) }

\* What the canvas transcoding yields when it is not invoked.
NoConversion == [ok |-> FALSE, bytes |-> <<>>]

\* The bytes createPolyglot puts after the container's.
appendedBytes(container, hidden) ==
    sliceFrom(createPolyglot(container, hidden, FALSE, NoConversion).blob,
              Len(container.bytes))

----------------------------------------------------------------------------
(* App state *)

\* The JavaScript null where no error message is set.
NullError == [isNull |-> TRUE, message |-> ""]

ErrorMessage(message) == [isNull |-> FALSE, message |-> message]

\* The JavaScript null where the modal holds no Chat.
NullChat == "null"

\* No call of generateContent has completed.
NoResponse == [kind |-> "none", text |-> <<>>]

\* decodePolyglotWithAI has not been called.
AiNotRun == [file |-> NullFile, tier |-> "pending", thrown |-> FALSE, message |-> ""]

\* The useAiDecode, isM4aFile and executableType of the render whose
\* handleDecodeFile is running: the callback reads them from its closure,
\* after an await as well.
Closure(ai, m4a, type) == [useAiDecode |-> ai, isM4aFile |-> m4a, executableType |-> type]

\* The App's decode state as the useState calls initialise it, no file
\* selected.
AppIdle ==
    /\ decodeFile = NoFile
    /\ extractedFile = NullFile
    /\ isDecoding = FALSE
    /\ decodeError = NullError
    /\ useAiDecode = TRUE
    /\ decodeStatus = "Decoding..."
    /\ isM4aFile = FALSE
    /\ executableType = "exe"
    /\ oracleResponse = NoResponse
    /\ aiDecoded = AiNotRun
    /\ captured = Closure(TRUE, FALSE, "exe")
    /\ oracleCalls = 0
    /\ isOpen = FALSE
    /\ chat = NullChat
    /\ messages = <<>>
    /\ input = <<>>
    /\ isLoading = FALSE
    /\ error = NullError
    /\ sends = <<>>
    /\ renderError = FALSE

----------------------------------------------------------------------------
(* Specification of processPayload applied to a payload *)

InitPayload ==
    /\ \/ /\ hiddenFile \in HiddenFiles
          /\ containerFile \in PayloadContainers
          /\ payload = appendedBytes(containerFile, hiddenFile)
       \/ /\ hiddenFile = NoFile
          /\ containerFile = NoFile
          /\ payload \in CraftedPayloads
    /\ autoConvert = FALSE
    /\ created = NotCreated
    /\ polyglotFile = NoFile
    /\ options = "none"
    /\ offset = 0
    /\ splitIndex = -1
    /\ boxes = <<>>
    /\ decoded = NotRun
    /\ pc = "payload"
    /\ AppIdle
    /\ polyglotMode = "create"

\* processPayload(payload)
ProcessPayload ==
    /\ pc = "payload"
    /\ decoded' = processPayload(payload)
    /\ pc' = "done"
    /\ UNCHANGED <<containerFile, hiddenFile, autoConvert, created, polyglotFile,
                   options, offset, splitIndex, payload, boxes>>
    /\ UNCHANGED appVars

NextPayload == ProcessPayload

SpecPayload == InitPayload /\ [][NextPayload]_vars

----------------------------------------------------------------------------
(* Properties of processPayload *)

\* pat occurs in seq at 0-based offset i.
OccursAt(seq, pat, i) ==
    /\ i >= 0
    /\ i + Len(pat) <= Len(seq)
    /\ \A j \in 1..Len(pat) : seq[i + j] = pat[j]

\* The least offset at which pat occurs in seq, or -1.
FirstOccurrence(seq, pat) ==
    IF \E i \in 0..Len(seq) : OccursAt(seq, pat, i)
    THEN CHOOSE i \in 0..Len(seq) :
            OccursAt(seq, pat, i) /\ \A h \in 0..(i - 1) : ~OccursAt(seq, pat, h)
    ELSE -1

\* The greatest offset at which pat occurs in seq, or -1.
LastOccurrence(seq, pat) ==
    IF \E i \in 0..Len(seq) : OccursAt(seq, pat, i)
    THEN CHOOSE i \in 0..Len(seq) :
            OccursAt(seq, pat, i) /\ \A h \in (i + 1)..Len(seq) : ~OccursAt(seq, pat, h)
    ELSE -1

\* The length a payload of four bytes or more declares in its first four
\* bytes, big-endian; 2^30 stands for every length of 2^30 and above.
DeclaredLength(seq) ==
    IF seq[1] >= 64 THEN 1073741824
    ELSE seq[1] * 16777216 + seq[2] * 65536 + seq[3] * 256 + seq[4]

\* The media type createPolyglot records for a hidden file.
RecordedType(hidden) == IF hidden.type = <<>> THEN S_octet_stream ELSE hidden.type

\* The payload has the wire format [u32 N][N-byte record][hidden bytes].
HasWireFormat(seq, hidden) ==
    /\ Len(seq) >= 4
    /\ Len(seq) = 4 + DeclaredLength(seq) + Len(hidden.bytes)
    /\ SubSeq(seq, 5 + DeclaredLength(seq), Len(seq)) = hidden.bytes

\* C2: for every name, every non-empty media type and every non-empty hidden
\* byte sequence, processPayload applied to the envelope bytes createPolyglot
\* appends, [u32 big-endian N][N-byte record][hidden bytes], returns from the
\* envelope tier the name, type and bytes of the hidden file, with size equal
\* to the hidden byte count.
EnvelopeRoundTrip ==
    (pc = "done" /\ hiddenFile # NoFile /\ hiddenFile.type # <<>>
        /\ hiddenFile.bytes # <<>>)
    => /\ HasWireFormat(payload, hiddenFile)
       /\ decoded.tier = "envelope"
       /\ ~decoded.escaped
       /\ decoded.file.name = hiddenFile.name
       /\ decoded.file.type = hiddenFile.type
       /\ decoded.file.blob = hiddenFile.bytes
       /\ decoded.file.size = Len(hiddenFile.bytes)

\* A name needing escapes and a multi-byte encoding has been round-tripped.
EnvelopeRoundTripWitness ==
    /\ pc = "done"
    /\ hiddenFile # NoFile
    /\ hiddenFile.name = <<233, 55296>>
    /\ hiddenFile.type = <<116, 47, 120>>
    /\ hiddenFile.bytes = <<255, 217>>
    /\ decoded.tier = "envelope"
    /\ decoded.file.name = <<233, 55296>>

\* C4: a payload whose declared length N makes 4 + N exceed the payload
\* length is rejected by the envelope tier, is classified by the signature or
\* the generic tier, and no exception escapes processPayload.
EnvelopeBoundCheck ==
    (pc = "done" /\ Len(payload) >= 4 /\ 4 + DeclaredLength(payload) > Len(payload))
    => /\ decoded.tier \in {"signature", "generic"}
       /\ ~decoded.escaped
       /\ decoded.file # NullFile

\* A well-formed record declared one byte longer than what follows the
\* prefix has been classified by the generic tier.
EnvelopeBoundCheckWitness ==
    /\ pc = "done"
    /\ \E r \in GoodRecords :
        payload = Frame(Len(r.bytes) + 2, r.bytes, <<9>>)
    /\ 4 + DeclaredLength(payload) = Len(payload) + 1
    /\ decoded.tier = "generic"
    /\ decoded.file.blob = payload

\* C5: the envelope tier produces no result and no exception escapes when
\* the payload has fewer than 4 bytes, or N is 0, or the N record bytes are
\* not an object with a string name and a string type (JSON null, a number,
\* an array, invalid JSON among them).
MalformedEnvelopeRejected ==
    (pc = "done"
        /\ \/ Len(payload) < 4
           \/ (Len(payload) >= 4 /\ DeclaredLength(payload) = 0)
           \/ payload \in BadRecordPayloads)
    => /\ decoded.tier # "envelope"
       /\ ~decoded.escaped

\* The record null followed by one byte has been classified.
MalformedEnvelopeWitness ==
    /\ pc = "done"
    /\ payload = Frame(4, <<110, 117, 108, 108>>, <<9>>)
    /\ decoded.tier = "generic"

\* The payloads that are exactly a length prefix and a well-formed record.
IsRecordOnly(seq) ==
    \/ hiddenFile # NoFile /\ hiddenFile.bytes = <<>>
    \/ \E r \in GoodRecords : seq = Frame(Len(r.bytes), r.bytes, <<>>)

\* C6: for a payload that is exactly [u32 N][valid N-byte record] with zero
\* hidden bytes, as createPolyglot produces for an empty hidden file, the
\* envelope tier does not return a DecodedFile.
EmptyPayloadRejected ==
    (pc = "done" /\ IsRecordOnly(payload))
    => /\ decoded.tier # "envelope"
       /\ decoded.file.size # 0
       /\ (hiddenFile # NoFile => HasWireFormat(payload, hiddenFile))

\* The envelope of an empty hidden file has been classified.
EmptyPayloadWitness ==
    /\ pc = "done"
    /\ hiddenFile # NoFile
    /\ hiddenFile.bytes = <<>>
    /\ hiddenFile.name = <<97>>
    /\ decoded.tier = "generic"

\* Some registry magic occurs in seq at an offset below 16.
MagicInWindow(seq) ==
    \E t \in 1..Len(signatures) : \E k \in 0..15 : OccursAt(seq, signatures[t].sig, k)

\* C7: whenever the envelope decode of a payload succeeds, processPayload
\* returns the envelope's name, type and bytes, even if a registry signature
\* also occurs within the first 16 bytes of the payload; a result of the
\* signature tier is produced only after the envelope tier has failed.
EnvelopeTierFirst ==
    pc = "done" =>
        /\ (hiddenFile # NoFile /\ hiddenFile.bytes # <<>>)
            => decoded = Outcome(DecodedFile(hiddenFile.bytes, hiddenFile.name,
                                             RecordedType(hiddenFile)),
                                 "envelope", FALSE)
        /\ \A r \in GoodRecords : \A t \in RecordTails \ {<<>>} :
            payload = Frame(Len(r.bytes), r.bytes, t)
            => decoded = Outcome(DecodedFile(t, r.name, r.type), "envelope", FALSE)
        /\ decoded.tier \in {"signature", "generic"}
            => (Len(payload) <= 4 \/ EnvelopeTry(payload).kind # "return")

\* An envelope whose name begins with the EXE magic at payload offset 13 has
\* been decoded by the envelope tier.
EnvelopeTierFirstWitness ==
    /\ pc = "done"
    /\ hiddenFile # NoFile
    /\ hiddenFile.name = <<77, 90>>
    /\ OccursAt(payload, <<77, 90>>, 13)
    /\ MagicInWindow(payload)
    /\ decoded.tier = "envelope"
    /\ decoded.file.name = <<77, 90>>

\* The registry's distinct magics.
RegistryMagics == { signatures[t].sig : t \in 1..Len(signatures) }

\* The first registry entry bearing the magic.
FirstEntryOf(magic) ==
    CHOOSE t \in 1..Len(signatures) :
        signatures[t].sig = magic /\ \A u \in 1..(t - 1) : signatures[u].sig # magic

\* processPayload returned the payload sliced from offset k under the name
\* and MIME of a registry entry bearing the magic.
MagicAccepted(magic, k) ==
    /\ decoded.tier = "signature"
    /\ \E t \in 1..Len(signatures) :
        /\ signatures[t].sig = magic
        /\ decoded.file = DecodedFile(SubSeq(payload, k + 1, Len(payload)),
                                      S_hidden_file_dot \o signatures[t].ext,
                                      signatures[t].mime)

\* An entry before the first one bearing the magic has its own magic at an
\* offset below 16.
EarlierEntryInWindow(magic) ==
    \E u \in 1..(FirstEntryOf(magic) - 1) :
        FirstOccurrence(payload, signatures[u].sig) \in 0..15

\* C8 as stated: for a payload with no valid envelope, a registry magic whose
\* first occurrence is at offset k is accepted iff k < 16.
SignatureWindowAsStated ==
    (pc = "done" /\ decoded.tier # "envelope")
    => \A magic \in RegistryMagics :
        LET k == FirstOccurrence(payload, magic) IN
        k >= 0 => (MagicAccepted(magic, k) <=> k < 16)

\* C8: for a payload with no valid envelope, a registry magic whose first
\* occurrence is at offset k is accepted iff k < 16 and no entry earlier in
\* table order has its magic at an offset below 16; when it is the only magic
\* in the payload, at k = 15 the result is the payload sliced from offset 15
\* with name hidden-file.<ext> and the registry MIME, and at k = 16 the result
\* is the generic tier's.
SignatureWindowRule ==
    (pc = "done" /\ decoded.tier # "envelope")
    => /\ \A magic \in RegistryMagics :
            LET k == FirstOccurrence(payload, magic) IN
            k >= 0 => (MagicAccepted(magic, k)
                        <=> (k < 16 /\ ~EarlierEntryInWindow(magic)))
       /\ \A t \in 1..Len(signatures) :
            /\ payload = WindowPayload(15, t)
                => /\ decoded.tier = "signature"
                   /\ decoded.file.blob = signatures[t].sig \o <<2>>
                   /\ decoded.file.name
                        = S_hidden_file_dot \o signatures[FirstEntryOf(signatures[t].sig)].ext
                   /\ decoded.file.type
                        = signatures[FirstEntryOf(signatures[t].sig)].mime
            /\ payload = WindowPayload(16, t)
                => decoded = Outcome(DecodedFile(payload, S_hidden_file_dot \o S_dat,
                                                 S_octet_stream),
                                     "generic", FALSE)

\* The PNG magic at offset 16 has been classified as generic binary.
SignatureWindowWitness ==
    /\ pc = "done"
    /\ payload = WindowPayload(16, 1)
    /\ FirstOccurrence(payload, signatures[1].sig) = 16
    /\ decoded.tier = "generic"

\* C9: for every non-empty payload for which the envelope tier fails and no
\* registry magic occurs at an offset below 16, processPayload returns the
\* entire payload unchanged with name hidden-file.dat and MIME
\* application/octet-stream; for the empty payload it returns none.
GenericTier ==
    pc = "done" =>
        /\ (payload # <<>> /\ decoded.tier # "envelope" /\ ~MagicInWindow(payload))
            => decoded = Outcome([blob |-> payload,
                                  name |-> <<104, 105, 100, 100, 101, 110, 45, 102,
                                             105, 108, 101, 46, 100, 97, 116>>,
                                  type |-> S_octet_stream,
                                  size |-> Len(payload)],
                                 "generic", FALSE)
        /\ payload = <<>> => decoded = Outcome(NullFile, "none", FALSE)

\* The empty payload has been given to processPayload.
GenericTierWitness ==
    /\ pc = "done"
    /\ payload = <<>>
    /\ decoded.file = NullFile

----------------------------------------------------------------------------
(* Inputs of createPolyglot and decodePolyglot *)

IEND == <<0, 0, 0, 0, 73, 69, 78, 68, 174, 66, 96, 130>>

\* The PNG header directly followed by the terminal chunk.
MiniPng == <<137, 80, 78, 71>> \o IEND

S_text_plain == <<116, 101, 120, 116, 47, 112, 108, 97, 105, 110>>
S_image_bmp == <<105, 109, 97, 103, 101, 47, 98, 109, 112>>
S_audio_mp4 == <<97, 117, 100, 105, 111, 47, 109, 112, 52>>

\* Container files: c.png (ends with its only terminal chunk), n.png (no
\* terminal chunk), t.png (a byte after the terminal chunk), c.jpg, c.gif,
\* a.txt, b.bmp, c.m4a (one 8-byte box).
ContainerFiles == {
    File(MiniPng, <<99, 46, 112, 110, 103>>, S_image_png),
    File(<<137, 80, 78, 71, 1>>, <<110, 46, 112, 110, 103>>, S_image_png),
    File(MiniPng \o <<5>>, <<116, 46, 112, 110, 103>>, S_image_png),
    File(<<255, 216, 255, 224, 255, 217>>, <<99, 46, 106, 112, 103>>, S_image_jpeg),
    File(<<71, 73, 70, 56, 57, 97, 59>>, <<99, 46, 103, 105, 102>>, S_image_gif),
    File(<<104, 105>>, <<97, 46, 116, 120, 116>>, S_text_plain),
    File(<<66, 77>>, <<98, 46, 98, 109, 112>>, S_image_bmp),
    File(<<0, 0, 0, 8, 102, 116, 121, 112>>, <<99, 46, 109, 52, 97>>, S_audio_mp4) }

\* What the canvas transcoding can yield: a PNG, or a rejection.
Conversions == { [ok |-> TRUE, bytes |-> MiniPng], [ok |-> FALSE, bytes |-> <<>>] }

\* options?.executableType: absent, 'exe' or 'apk'.
Options == {"none", "exe", "apk"}

\* The longest body put after the JPEG header in a crafted file.
MaxJpegBody == 5

\* Every byte sequence of length at most n over the alphabet.
Bodies(alphabet, n) == UNION { [1..k -> alphabet] : k \in 0..n }

\* x.jpg: the JPEG header followed by every body over FF, D9 and 01.
JpegFiles ==
    { File(<<255, 216, 255>> \o b, <<120, 46, 106, 112, 103>>, S_image_jpeg) :
        b \in Bodies({255, 217, 1}, MaxJpegBody) }

\* x.jpg with FF D9 at offsets 3 and 5 inside the scan data, the terminal
\* FF D9 at offset 8, and two appended bytes.
JpegTieBreakFile ==
    File(<<255, 216, 255, 255, 217, 255, 217, 1, 255, 217, 7, 7>>,
         <<120, 46, 106, 112, 103>>, S_image_jpeg)

Box(size, type, content) == setUint32(size) \o type \o content

ftyp == <<102, 116, 121, 112>>
moov == <<109, 111, 111, 118>>
free == <<102, 114, 101, 101>>
wide == <<119, 105, 100, 101>>

\* Contents of crafted M4A files.
M4aContents == {
    \* boxes of sizes 8, 16, 8, then MZ 90 00
    Box(8, ftyp, <<>>) \o Box(16, moov, <<1, 2, 3, 4, 5, 6, 7, 8>>) \o Box(8, free, <<>>)
        \o <<77, 90, 144, 0>>,
    \* the same followed by the ZIP magic
    Box(8, ftyp, <<>>) \o Box(16, moov, <<1, 2, 3, 4, 5, 6, 7, 8>>) \o Box(8, free, <<>>)
        \o <<80, 75, 3, 4>>,
    \* a box of declared size 1 whose extended size is 0
    Box(1, wide, <<0, 0, 0, 0, 0, 0, 0, 0>>) \o <<77, 90>>,
    \* a box of declared size 1 whose extended size is 16
    Box(8, ftyp, <<>>) \o Box(1, wide, <<0, 0, 0, 0, 0, 0, 0, 16>>) \o <<77, 90>>,
    \* a box of declared size 1 whose extended size has a non-zero high word
    Box(8, ftyp, <<>>) \o Box(1, wide, <<0, 0, 0, 1, 0, 0, 0, 16>>) \o <<77, 90>>,
    \* a box of declared size 1 cut short
    Box(8, ftyp, <<>>) \o Box(1, wide, <<0, 0, 0, 0>>),
    \* a box of declared size 0
    Box(8, ftyp, <<>>) \o Box(0, free, <<77, 90>>),
    \* a box of declared size 4
    Box(4, free, <<77, 90, 0, 0, 0, 0>>),
    \* a box of declared size 100 after an 8-byte box
    Box(8, ftyp, <<>>) \o Box(100, moov, <<77, 90>>),
    \* an 8-byte box, then MZ and six more bytes with no box type among them
    Box(8, ftyp, <<>>) \o <<77, 90, 0, 0, 0, 0, 0, 0>>,
    \* boxes of sizes 8, 16, 8, then MZ and six more bytes with no box type
    Box(8, ftyp, <<>>) \o Box(16, moov, <<1, 2, 3, 4, 5, 6, 7, 8>>) \o Box(8, free, <<>>)
        \o <<77, 90, 144, 0, 3, 0, 0, 0>>,
    \* a box of declared size 100 at the start
    Box(100, moov, <<77, 90>>),
    \* boxes of sizes 8, 16, 8, then a box of declared size 100
    Box(8, ftyp, <<>>) \o Box(16, moov, <<1, 2, 3, 4, 5, 6, 7, 8>>) \o Box(8, free, <<>>)
        \o Box(100, wide, <<77, 90>>),
    \* a box of declared size FF FF FF FF after an 8-byte box
    Box(8, ftyp, <<>>) \o <<255, 255, 255, 255>> \o moov \o <<77, 90>>,
    \* a box of declared size 1 whose extended size is 100
    Box(8, ftyp, <<>>) \o Box(1, wide, <<0, 0, 0, 0, 0, 0, 0, 100>>) \o <<77, 90>> }

\* x.m4a, X.M4A, and x.bin of type audio/mp4.
M4aFiles ==
    { File(c, <<120, 46, 109, 52, 97>>, <<>>) : c \in M4aContents }
    \cup { File(c, <<88, 46, 77, 52, 65>>, S_audio_mp4) : c \in M4aContents }
    \cup { File(c, <<120, 46, 98, 105, 110>>, S_audio_mp4) : c \in M4aContents }

\* The longest body put after the GIF header in a crafted file.
MaxGifBody == 4

\* x.gif: the GIF header followed by every body over 3B and 01.
GifFiles ==
    { File(<<71, 73, 70>> \o b, <<120, 46, 103, 105, 102>>, S_image_gif) :
        b \in Bodies({59, 1}, MaxGifBody) }

\* What is put after the PNG header in a crafted file: nothing, a byte, the
\* terminal chunk, the terminal chunk without its last byte, the terminal
\* chunk with a length field of 1.
PngParts ==
    { <<>>, <<1>>, IEND, SubSeq(IEND, 1, 11),
      <<0, 0, 0, 1, 73, 69, 78, 68, 174, 66, 96, 130>> }

\* x.png: the PNG header followed by three parts.
PngFiles ==
    { File(<<137, 80, 78, 71>> \o a \o b \o c, <<120, 46, 112, 110, 103>>, S_image_png) :
        a \in PngParts, b \in PngParts, c \in PngParts }

\* x.m4a of type audio/mp4 whose content is a JPEG, a PNG or a GIF followed
\* by MZ.
M4aNamedImages ==
    { File(c \o <<77, 90>>, <<120, 46, 109, 52, 97>>, S_audio_mp4) :
        c \in { <<255, 216, 255, 224, 255, 217>>, MiniPng,
                <<71, 73, 70, 56, 57, 97, 59>> } }

\* Payloads that hold the magic shared by ZIP and APK: alone, after a byte,
\* after twelve bytes, followed by the JPEG magic, followed by the PNG magic,
\* and inside an envelope whose record names the APK media type.
ZipPayloads ==
    { <<80, 75, 3, 4>>, <<1, 80, 75, 3, 4>>, Pad(12) \o <<80, 75, 3, 4>>,
      <<80, 75, 3, 4, 255, 216, 255>>,
      <<80, 75, 3, 4, 137, 80, 78, 71, 13, 10, 26, 10>>,
      appendedBytes(File(<<>>, <<99>>, <<>>),
                    File(<<80, 75, 3, 4>>, <<97, 46, 97, 112, 107>>, S_application_apk)) }

\* x.jpg: a JPEG that ends with its end marker, followed by a payload.
ZipFiles ==
    { File(<<255, 216, 255, 224, 255, 217>> \o p, <<120, 46, 106, 112, 103>>,
           S_image_jpeg) : p \in ZipPayloads }

CraftedFiles ==
    JpegFiles \cup {JpegTieBreakFile} \cup M4aFiles \cup GifFiles \cup PngFiles
        \cup M4aNamedImages \cup ZipFiles

\* The most box headers a walk of the model reads.
MaxBoxes == 4

----------------------------------------------------------------------------
(* Specification of createPolyglot and decodePolyglot *)

Init ==
    /\ \/ /\ pc = "create"
          /\ containerFile \in ContainerFiles
          /\ hiddenFile \in HiddenFiles
          /\ autoConvert \in BOOLEAN
          /\ polyglotFile = NoFile
          /\ options = "none"
       \/ /\ pc = "decode"
          /\ containerFile = NoFile
          /\ hiddenFile = NoFile
          /\ autoConvert = FALSE
          /\ polyglotFile \in CraftedFiles
          /\ options \in Options
    /\ created = NotCreated
    /\ offset = 0
    /\ splitIndex = -1
    /\ payload = <<>>
    /\ boxes = <<>>
    /\ decoded = NotRun
    /\ AppIdle
    /\ polyglotMode = "create"

\* createPolyglot(containerFile, hiddenFile, autoConvert)
CreatePolyglot ==
    /\ pc = "create"
    /\ \E conversion \in Conversions :
        created' = createPolyglot(containerFile, hiddenFile, autoConvert,
                        IF needsConversion(containerFile, autoConvert)
                        THEN conversion ELSE NoConversion)
    /\ pc' = IF created'.status = "resolved" THEN "created" ELSE "rejected"
    /\ UNCHANGED <<containerFile, hiddenFile, autoConvert, polyglotFile, options,
                   offset, splitIndex, payload, boxes, decoded>>
    /\ UNCHANGED appVars

\* The created blob, saved under newContainerName, is given to the decoder.
SelectCreated ==
    /\ pc = "created"
    /\ polyglotFile' = File(created.blob, created.newContainerName, created.type)
    /\ options' \in Options
    /\ pc' = "decode"
    /\ UNCHANGED <<containerFile, hiddenFile, autoConvert, created, offset,
                   splitIndex, payload, boxes, decoded>>
    /\ UNCHANGED appVars

\* decodePolyglot up to `if (isM4A && options?.executableType)`.
DecodeBegin ==
    /\ pc = "decode"
    /\ offset' = 0
    /\ boxes' = <<>>
    /\ pc' = IF isM4A(polyglotFile) /\ options # "none" THEN "m4a_walk" ELSE "markers"
    /\ UNCHANGED <<containerFile, hiddenFile, autoConvert, created, polyglotFile,
                   options, splitIndex, payload, decoded>>
    /\ UNCHANGED appVars

\* decodeM4AContainer: one test of the while condition and, when it holds,
\* one execution of the loop body.
M4AWalk ==
    /\ pc = "m4a_walk"
    /\ Len(boxes) < MaxBoxes
    /\ LET step == walkBox(polyglotFile.bytes, offset) IN
        /\ offset' = step.next
        /\ boxes' = IF step.read THEN Append(boxes, offset) ELSE boxes
        /\ pc' = IF step.loop THEN "m4a_walk" ELSE "m4a_check"
    /\ UNCHANGED <<containerFile, hiddenFile, autoConvert, created, polyglotFile,
                   options, splitIndex, payload, decoded>>
    /\ UNCHANGED appVars

\* decodeM4AContainer after the loop, and `if (result) return result`.
M4AReturn ==
    /\ pc = "m4a_check"
    /\ LET result == m4aResult(polyglotFile.bytes, offset, options) IN
        IF result # NullFile
        THEN /\ decoded' = Outcome(result, "m4a", FALSE)
             /\ pc' = "done"
        ELSE /\ decoded' = decoded
             /\ pc' = "markers"
    /\ UNCHANGED <<containerFile, hiddenFile, autoConvert, created, polyglotFile,
                   options, offset, splitIndex, payload, boxes>>
    /\ UNCHANGED appVars

\* decodePolyglot from `let splitIndex = -1` to its end.
LocateAndClassify ==
    /\ pc = "markers"
    /\ splitIndex' = locateSplitIndex(polyglotFile.bytes)
    /\ IF splitIndex' # -1 /\ splitIndex' < Len(polyglotFile.bytes)
       THEN /\ payload' = sliceFrom(polyglotFile.bytes, splitIndex')
            /\ decoded' = processPayload(payload')
       ELSE /\ payload' = payload
            /\ decoded' = Outcome(NullFile, "none", FALSE)
    /\ pc' = "done"
    /\ UNCHANGED <<containerFile, hiddenFile, autoConvert, created, polyglotFile,
                   options, offset, boxes>>
    /\ UNCHANGED appVars

Next ==
    \/ CreatePolyglot
    \/ SelectCreated
    \/ DecodeBegin
    \/ M4AWalk
    \/ M4AReturn
    \/ LocateAndClassify

Spec == Init /\ [][Next]_vars

----------------------------------------------------------------------------
(* Properties of createPolyglot and decodePolyglot *)

\* A decode of the blob createPolyglot made from containerFile and
\* hiddenFile without conversion, by decodePolyglot without options, is over.
CreatedDecoded ==
    /\ pc = "done"
    /\ created.status = "resolved"
    /\ ~autoConvert
    /\ options = "none"
    /\ polyglotFile.bytes = created.blob

\* The greatest offset of byte value in seq that is at most limit, or -1.
LastByteUpTo(seq, value, limit) ==
    IF \E i \in 0..limit : i < Len(seq) /\ seq[i + 1] = value
    THEN CHOOSE i \in 0..limit :
            /\ i < Len(seq) /\ seq[i + 1] = value
            /\ \A h \in (i + 1)..limit : ~(h < Len(seq) /\ seq[h + 1] = value)
    ELSE -1

\* The end marker the decoder searches for in the blob ends exactly at the
\* last byte of the container: the first PNG terminal chunk, the last FF D9,
\* or the last 3B before the final byte.
MarkerEndsContainer(container, blob) ==
    \/ /\ OccursAt(container, <<137, 80, 78, 71>>, 0)
       /\ FirstOccurrence(blob, IEND) + 12 = Len(container)
    \/ /\ OccursAt(container, <<255, 216, 255>>, 0)
       /\ LastOccurrence(blob, <<255, 217>>) + 2 = Len(container)
    \/ /\ OccursAt(container, <<71, 73, 70>>, 0)
       /\ LastByteUpTo(blob, 59, Len(blob) - 2) + 1 = Len(container)

\* A PNG, JPEG or GIF file whose content ends with its end marker: the
\* first terminal chunk, the last FF D9, or a final 3B.
EndsWithEndMarker(bytes) ==
    \/ /\ OccursAt(bytes, <<137, 80, 78, 71>>, 0)
       /\ FirstOccurrence(bytes, IEND) # -1
       /\ FirstOccurrence(bytes, IEND) + 12 = Len(bytes)
    \/ /\ OccursAt(bytes, <<255, 216, 255>>, 0)
       /\ LastOccurrence(bytes, <<255, 217>>) # -1
       /\ LastOccurrence(bytes, <<255, 217>>) + 2 = Len(bytes)
    \/ /\ OccursAt(bytes, <<71, 73, 70>>, 0)
       /\ bytes[Len(bytes)] = 59

\* C1: decodePolyglot of the blob made by createPolyglot (autoConvert off)
\* returns the hidden file's bytes, name and media type.  The claim is for
\* any container bytes, hidden bytes, name and media type; it is stated here
\* for the inputs most favourable to it: a PNG, JPEG or GIF container that
\* ends with its end marker, non-empty hidden bytes and a non-empty hidden
\* name and media type.
RoundTripAsStated ==
    (CreatedDecoded /\ hiddenFile.bytes # <<>> /\ hiddenFile.name # <<>>
        /\ hiddenFile.type # <<>> /\ EndsWithEndMarker(containerFile.bytes))
    => /\ decoded.file.blob = hiddenFile.bytes
       /\ decoded.file.name = hiddenFile.name
       /\ decoded.file.type = hiddenFile.type

\* Where the round trip does hold: for a PNG, JPEG or GIF container whose
\* end marker, as the decoder searches for it in the blob (hidden bytes
\* included), ends exactly at the container's last byte,
\* any non-empty hidden bytes, any hidden name and any non-empty hidden media
\* type, decodePolyglot (without options) of the blob made by createPolyglot
\* (autoConvert off) returns the hidden file's bytes, name and media type.
RoundTrip ==
    (CreatedDecoded /\ hiddenFile.bytes # <<>> /\ hiddenFile.type # <<>>
        /\ MarkerEndsContainer(containerFile.bytes, created.blob))
    => /\ decoded.tier = "envelope"
       /\ decoded.file.blob = hiddenFile.bytes
       /\ decoded.file.name = hiddenFile.name
       /\ decoded.file.type = hiddenFile.type
       /\ decoded.file.size = Len(hiddenFile.bytes)

\* A hidden PNG whose name needs escapes has been recovered from a GIF.
RoundTripWitness ==
    /\ CreatedDecoded
    /\ containerFile.name = <<99, 46, 103, 105, 102>>
    /\ MarkerEndsContainer(containerFile.bytes, created.blob)
    /\ hiddenFile.name = <<34, 92, 10>>
    /\ hiddenFile.type = <<116, 47, 120>>
    /\ hiddenFile.bytes = <<137, 80, 78, 71, 13, 10, 26, 10>>
    /\ decoded.tier = "envelope"
    /\ decoded.file.blob = hiddenFile.bytes

\* C3: the box walker of decodeM4AContainer visits boxes at strictly
\* increasing offsets, boxes of declared size 1 with extended size 0 and
\* boxes of declared size 2 to 7 included.
BoxOffsetsIncrease ==
    \A i \in 1..Len(boxes) : \A j \in 1..Len(boxes) : i < j => boxes[i] < boxes[j]

\* C10: for a buffer beginning FF D8 FF the JPEG locator's boundary is the
\* offset of the last FF D9 in the whole buffer plus 2 (none when FF D9 does
\* not occur); with FF D9 at p1 < p2 inside the scan data and the terminal
\* marker at p3 > p2 the boundary is p3 + 2.
JpegLastMarker ==
    (pc = "done" /\ decoded.tier # "m4a"
        /\ OccursAt(polyglotFile.bytes, <<255, 216, 255>>, 0))
    => /\ splitIndex = IF LastOccurrence(polyglotFile.bytes, <<255, 217>>) = -1
                       THEN -1
                       ELSE LastOccurrence(polyglotFile.bytes, <<255, 217>>) + 2
       /\ polyglotFile = JpegTieBreakFile
            => (splitIndex = 10 /\ payload = <<7, 7>>)

\* The buffer with FF D9 at offsets 3, 5 and 8 has been decoded.
JpegLastMarkerWitness ==
    /\ pc = "done"
    /\ polyglotFile = JpegTieBreakFile
    /\ OccursAt(polyglotFile.bytes, <<255, 217>>, 3)
    /\ OccursAt(polyglotFile.bytes, <<255, 217>>, 5)
    /\ LastOccurrence(polyglotFile.bytes, <<255, 217>>) = 8
    /\ splitIndex = 10

\* decodePolyglot has gone through its marker locators.
LocatorsRan == pc = "done" /\ decoded.tier # "m4a"

\* C11: for a buffer of length L beginning with the GIF header in which 3B
\* occurs mid-stream and also as the final byte at index L - 1, the GIF
\* locator's backward search from L - 2 returns the final occurrence, so
\* the boundary is (L - 1) + 1.
GifTrueTrailer ==
    (/\ LocatorsRan
     /\ OccursAt(polyglotFile.bytes, <<71, 73, 70>>, 0)
     /\ polyglotFile.bytes[Len(polyglotFile.bytes)] = 59
     /\ \E i \in 3..(Len(polyglotFile.bytes) - 2) : polyglotFile.bytes[i + 1] = 59)
    => splitIndex = Len(polyglotFile.bytes)

\* C12: for every buffer beginning with the PNG header bytes the PNG
\* locator's boundary is the offset of the first occurrence of the 12-byte
\* sequence 00 00 00 00 49 45 4E 44 AE 42 60 82 anywhere in the buffer plus
\* 12, and no boundary is found when the sequence is absent.
PngFirstTerminalChunk ==
    (LocatorsRan /\ OccursAt(polyglotFile.bytes, <<137, 80, 78, 71>>, 0))
    => splitIndex = IF FirstOccurrence(polyglotFile.bytes, IEND) = -1 THEN -1
                    ELSE FirstOccurrence(polyglotFile.bytes, IEND) + 12

\* A buffer in which the sequence occurs at offsets 5 and 17 has been
\* decoded with the boundary at 17.
PngFirstTerminalChunkWitness ==
    /\ LocatorsRan
    /\ OccursAt(polyglotFile.bytes, <<137, 80, 78, 71>>, 0)
    /\ OccursAt(polyglotFile.bytes, IEND, 5)
    /\ OccursAt(polyglotFile.bytes, IEND, 17)
    /\ splitIndex = 17
    /\ payload = IEND

\* The 4-byte type tag of the box header at offset at is alphanumeric.
AlphanumericTagAt(bytes, at) ==
    \A i \in 5..8 :
        \/ (bytes[at + i] >= 97 /\ bytes[at + i] <= 122)
        \/ (bytes[at + i] >= 65 /\ bytes[at + i] <= 90)
        \/ (bytes[at + i] >= 48 /\ bytes[at + i] <= 57)

\* An ASCII byte that is neither alphanumeric nor white space.
NoTagByte(b) ==
    /\ b < 128
    /\ ~(b >= 97 /\ b <= 122) /\ ~(b >= 65 /\ b <= 90) /\ ~(b >= 48 /\ b <= 57)
    /\ b \notin {9, 10, 11, 12, 13, 32}

\* Boxes of sizes 8, 16 and 8 with alphanumeric type tags, followed by bytes
\* that begin with 4D 5A and hold no further box header with a type tag.
ThreeBoxesThenExe(bytes) ==
    /\ Len(bytes) >= 34
    /\ OccursAt(bytes, <<0, 0, 0, 8>>, 0) /\ AlphanumericTagAt(bytes, 0)
    /\ OccursAt(bytes, <<0, 0, 0, 16>>, 8) /\ AlphanumericTagAt(bytes, 8)
    /\ OccursAt(bytes, <<0, 0, 0, 8>>, 24) /\ AlphanumericTagAt(bytes, 24)
    /\ OccursAt(bytes, <<77, 90>>, 32)
    /\ (Len(bytes) < 40 \/ \E i \in 5..8 : NoTagByte(bytes[32 + i]))

\* C13: for a buffer made of well-formed boxes of sizes 8, 16, 8 followed by
\* bytes that begin with 4D 5A and do not parse as a further box, the
\* walker's boundary is 32; decodePolyglot on an M4A-named file returns the
\* bytes from offset 32 as hidden.exe with hint exe and returns none with
\* hint apk.
M4aThreeBoxes ==
    (pc = "done" /\ isM4A(polyglotFile) /\ options # "none"
        /\ ThreeBoxesThenExe(polyglotFile.bytes))
    => /\ offset = 32
       /\ options = "exe" =>
            /\ decoded.tier = "m4a"
            /\ decoded.file.blob = SubSeq(polyglotFile.bytes, 33, Len(polyglotFile.bytes))
            /\ decoded.file.name = <<104, 105, 100, 100, 101, 110, 46, 101, 120, 101>>
            /\ decoded.file.type = S_application_exe
            /\ decoded.file.size = Len(polyglotFile.bytes) - 32
       /\ options = "apk" => decoded.file = NullFile

\* The decode with hint exe of an M4A-named file with three boxes and
\* MZ 90 00 03 00 00 00 appended is over.
M4aThreeBoxesWitness ==
    /\ pc = "done"
    /\ isM4A(polyglotFile)
    /\ ThreeBoxesThenExe(polyglotFile.bytes)
    /\ Len(polyglotFile.bytes) = 40
    /\ boxes = <<0, 8, 24, 32>>
    /\ options = "exe"
    /\ decoded.tier = "m4a"
    /\ decoded.file.size = 8

\* The big-endian 32-bit field at offset at; 2^30 stands for every value of
\* 2^30 and above.
FieldAt(bytes, at) == DeclaredLength(SubSeq(bytes, at + 1, at + 4))

\* At offset at there is a box header with an alphanumeric type tag whose
\* declared size (the extended size's low word for a declared size of 1 with
\* a zero high word) would move the offset past the end of the buffer.
CorruptBoxAt(bytes, at) ==
    /\ at + 8 <= Len(bytes)
    /\ AlphanumericTagAt(bytes, at)
    /\ \/ FieldAt(bytes, at) >= 2 /\ at + FieldAt(bytes, at) > Len(bytes)
       \/ /\ FieldAt(bytes, at) = 1
          /\ at + 16 <= Len(bytes)
          /\ FieldAt(bytes, at + 8) = 0
          /\ at + FieldAt(bytes, at + 12) > Len(bytes)

\* C14: when the walker reaches a box whose declared size would move the
\* offset past the buffer length, it stops and the boundary is the start
\* offset of that box, wherever the box is.
M4aCorruptBoxStops ==
    \A i \in 1..Len(boxes) :
        CorruptBoxAt(polyglotFile.bytes, boxes[i])
        => /\ i = Len(boxes)
           /\ pc # "m4a_walk"
           /\ offset = boxes[i]

\* The walker has stopped at a box of declared size 100 that follows boxes
\* of sizes 8, 16 and 8.
M4aCorruptBoxStopsWitness ==
    /\ pc = "m4a_check"
    /\ boxes = <<0, 8, 24, 32>>
    /\ FieldAt(polyglotFile.bytes, 32) = 100
    /\ CorruptBoxAt(polyglotFile.bytes, 32)
    /\ offset = 32

\* At offset at there is a box header with an alphanumeric type tag, a
\* declared size of 1 and a whole 8-byte extended size.
ExtendedBoxAt(bytes, at) ==
    /\ at + 16 <= Len(bytes)
    /\ AlphanumericTagAt(bytes, at)
    /\ FieldAt(bytes, at) = 1

\* The offset the walker went to from the i-th box it read.
OffsetAfter(i) == IF i < Len(boxes) THEN boxes[i + 1] ELSE offset

\* C15: when a box declares size 1 and the high 32 bits of its extended size
\* are non-zero, the walker stops with the boundary at that box's start
\* offset; when they are zero it advances by exactly the low 32 bits (and
\* is put back to the box's start when that passes the end of the buffer).
M4aExtendedSize ==
    \A i \in 1..Len(boxes) :
        ExtendedBoxAt(polyglotFile.bytes, boxes[i])
        => IF FieldAt(polyglotFile.bytes, boxes[i] + 8) > 0
           THEN i = Len(boxes) /\ pc # "m4a_walk" /\ offset = boxes[i]
           ELSE IF boxes[i] + FieldAt(polyglotFile.bytes, boxes[i] + 12)
                        <= Len(polyglotFile.bytes)
           THEN OffsetAfter(i) = boxes[i] + FieldAt(polyglotFile.bytes, boxes[i] + 12)
           ELSE i = Len(boxes) /\ pc # "m4a_walk" /\ offset = boxes[i]

\* The walker has stopped at offset 8, at a box of declared size 1 whose
\* extended size has the high word 1.
M4aExtendedSizeWitness ==
    /\ pc = "m4a_check"
    /\ boxes = <<0, 8>>
    /\ ExtendedBoxAt(polyglotFile.bytes, 8)
    /\ FieldAt(polyglotFile.bytes, 16) = 1
    /\ offset = 8

\* C16: on the M4A path, when the box walker finds a boundary and the hint
\* check succeeds, the decode result equals processPayload of the bytes from
\* the boundary on (envelope tier, then signature scan with name
\* hidden-file.<ext>, then generic).
M4aResultIsClassification ==
    (pc = "done" /\ decoded.tier = "m4a")
    => /\ decoded.file.blob = processPayload(sliceFrom(polyglotFile.bytes, offset)).file.blob
       /\ decoded.file.name = processPayload(sliceFrom(polyglotFile.bytes, offset)).file.name
       /\ decoded.file.type = processPayload(sliceFrom(polyglotFile.bytes, offset)).file.type

\* C17: in a decode of a file whose name ends in .m4a or whose type is
\* audio/mp4 and for which a hint is supplied, none of the PNG, JPEG and GIF
\* marker locators is run, neither after the M4A locator succeeds nor after
\* it fails: splitIndex, which only those locators assign, keeps its initial
\* value -1.
M4aPathExclusive ==
    (isM4A(polyglotFile) /\ options # "none") => splitIndex = -1

\* C18: whenever a PNG, JPEG or GIF locator finds a boundary b below the
\* buffer length, decodePolyglot returns a classification of the bytes from
\* b on, from the envelope tier, or else the signature tier, or else the
\* generic tier, and no exception escapes; decodePolyglot returns none from
\* its marker path only when no boundary below the length was found.
LocatedPayloadClassified ==
    LocatorsRan
    => IF splitIndex # -1 /\ splitIndex < Len(polyglotFile.bytes)
       THEN /\ payload = SubSeq(polyglotFile.bytes, splitIndex + 1,
                                Len(polyglotFile.bytes))
            /\ decoded.file # NullFile
            /\ ~decoded.escaped
            /\ decoded.tier \in {"envelope", "signature", "generic"}
            /\ decoded.tier = "generic"
                => /\ decoded.file.blob = payload
                   /\ ~MagicInWindow(payload)
            /\ decoded.tier = "signature"
                => \E k \in 0..15 :
                        decoded.file.blob = SubSeq(payload, k + 1, Len(payload))
            /\ decoded.tier = "envelope"
                => /\ Len(payload) > 4
                   /\ decoded.file.blob = SubSeq(payload, 5 + DeclaredLength(payload),
                                                 Len(payload))
       ELSE decoded.file = NullFile /\ decoded.tier = "none" /\ ~decoded.escaped

\* The blob made from c.jpg and an empty hidden file named MZ has been
\* decoded: the envelope tier failed on the payload found at the boundary
\* and the signature tier produced the result.
LocatedPayloadClassifiedWitness ==
    /\ LocatorsRan
    /\ CreatedDecoded
    /\ OccursAt(polyglotFile.bytes, <<255, 216, 255>>, 0)
    /\ hiddenFile.name = <<77, 90>>
    /\ hiddenFile.bytes = <<>>
    /\ splitIndex = Len(containerFile.bytes)
    /\ splitIndex < Len(polyglotFile.bytes)
    /\ decoded.tier = "signature"
    /\ decoded.file # NullFile

----------------------------------------------------------------------------
(* Inputs of the App's decode mode *)

\* Files in which decodePolyglot finds no boundary: two bytes, MZ and a
\* byte under the name x.bin; two bytes and an envelope for the hidden file
\* "a" of type "t/x" with content 07; the same with no content; the PNG
\* signature followed by MZ.
OracleFiles ==
    { File(<<1, 2, 77, 90, 3>>, <<120, 46, 98, 105, 110>>, <<>>),
      File(<<1, 2>> \o appendedBytes(File(<<>>, <<99>>, <<>>),
                                     File(<<7>>, <<97>>, <<116, 47, 120>>)),
           <<120, 46, 98, 105, 110>>, S_octet_stream),
      File(<<1, 2>> \o appendedBytes(File(<<>>, <<99>>, <<>>),
                                     File(<<>>, <<97>>, <<116, 47, 120>>)),
           <<120, 46, 98, 105, 110>>, S_octet_stream),
      File(markers.PNG.header \o <<77, 90>>, <<120, 46, 112, 110, 103>>, S_image_png) }

\* Containers with nothing after them: x.png, the PNG header and the terminal
\* chunk; x.jpg, FF D8 FF E0 FF D9.
CleanFiles ==
    { File(MiniPng, <<120, 46, 112, 110, 103>>, S_image_png),
      File(<<255, 216, 255, 224, 255, 217>>, <<120, 46, 106, 112, 103>>, S_image_jpeg) }

AppFiles == OracleFiles \cup CleanFiles \cup M4aFiles \cup M4aNamedImages

\* The largest integer the oracle of the model answers.
MaxOracleIndex == 6

RECURSIVE DecimalDigits(_)
DecimalDigits(n) ==
    IF n < 10 THEN <<48 + n>> ELSE DecimalDigits(n \div 10) \o <<48 + (n % 10)>>

IndexText(n) == IF n < 0 THEN <<45>> \o DecimalDigits(0 - n) ELSE DecimalDigits(n)

\* {"splitIndex":<value>}
AnswerText(valueText) == <<123, 34>> \o S_splitIndex \o <<34, 58>> \o valueText \o <<125>>

\* Number answers that are not written as an integer: 2.5, 0.5, -0, 2e0, 1e9.
OtherNumberTexts ==
    { <<50, 46, 53>>, <<48, 46, 53>>, <<45, 48>>, <<50, 101, 48>>, <<49, 101, 57>> }

\* Answers that are not a Number: "2", null, true.
NonNumberTexts == { <<34, 50, 34>>, <<110, 117, 108, 108>>, <<116, 114, 117, 101>> }

\* Texts that parse but hold no usable member: {}, [], 2, "s",
\* {"splitIndex":2,"splitIndex":0}.
OtherValueTexts ==
    { <<123, 125>>, <<91, 93>>, <<50>>, <<34, 115, 34>>,
      <<123, 34>> \o S_splitIndex \o <<34, 58, 50, 44, 34>> \o S_splitIndex
          \o <<34, 58, 48, 125>> }

\* Texts JSON.parse rejects, and the text null: the empty text,
\* {"splitIndex": cut short, {"splitIndex":02}, null.
FailingTexts ==
    { <<>>, <<123, 34>> \o S_splitIndex \o <<34, 58>>, AnswerText(<<48, 50>>),
      <<110, 117, 108, 108>> }

OracleTexts ==
    { AnswerText(IndexText(n)) : n \in -1..MaxOracleIndex }
        \cup { AnswerText(t) : t \in OtherNumberTexts \cup NonNumberTexts }
        \cup OtherValueTexts \cup FailingTexts

OracleResponses == { Rejected, WithoutText } \cup { WithText(t) : t \in OracleTexts }

----------------------------------------------------------------------------
(* Specification of the App's decode mode: handleDecodeFile *)

decodeVars == <<containerFile, hiddenFile, autoConvert, created, polyglotFile,
                options, offset, splitIndex, payload, boxes, decoded>>

\* The App as mounted, in decode mode.
InitAI ==
    /\ containerFile = NoFile
    /\ hiddenFile = NoFile
    /\ autoConvert = FALSE
    /\ created = NotCreated
    /\ polyglotFile = NoFile
    /\ options = "none"
    /\ offset = 0
    /\ splitIndex = -1
    /\ payload = <<>>
    /\ boxes = <<>>
    /\ decoded = NotRun
    /\ pc = "idle"
    /\ AppIdle
    /\ polyglotMode = "decode"

\* FileUpload onFileSelect={(file) => ...}
onFileSelect(file) ==
    /\ decodeFile' = file
    /\ extractedFile' = NullFile
    /\ decodeError' = NullError
    /\ isM4aFile' = (endsWithString(toLowerCase(file.name), <<46, 109, 52, 97>>)
                        \/ file.type = S_audio_mp4)

\* A file is chosen before the decode is started.
OnFileSelect ==
    /\ pc = "idle"
    /\ polyglotMode = "decode"
    /\ \E file \in AppFiles : onFileSelect(file)
    /\ UNCHANGED <<chatVars, decodeVars, pc, isDecoding, useAiDecode, decodeStatus,
                   executableType, oracleResponse, aiDecoded, captured,
                   oracleCalls,
                   polyglotMode>>

\* ToggleSwitch onChange={setUseAiDecode}
SetUseAiDecode ==
    /\ pc = "idle"
    /\ polyglotMode = "decode"
    /\ useAiDecode' = ~useAiDecode
    /\ UNCHANGED <<chatVars, decodeVars, pc, decodeFile, extractedFile, isDecoding,
                   decodeError, decodeStatus, isM4aFile, executableType,
                   oracleResponse, aiDecoded, captured, oracleCalls,
                   polyglotMode>>

\* The EXE File and APK File buttons, rendered when isM4aFile.
SetExecutableType ==
    /\ pc = "idle"
    /\ polyglotMode = "decode"
    /\ isM4aFile
    /\ executableType' \in {"exe", "apk"}
    /\ UNCHANGED <<chatVars, decodeVars, pc, decodeFile, extractedFile, isDecoding,
                   decodeError, useAiDecode, decodeStatus, isM4aFile,
                   oracleResponse, aiDecoded, captured, oracleCalls,
                   polyglotMode>>

\* handleDecodeFile up to the call of decodePolyglot.  The button that runs
\* it is disabled while no file is selected or a decode is running.
HandleDecodeFile ==
    /\ pc = "idle"
    /\ polyglotMode = "decode"
    /\ decodeFile # NoFile
    /\ ~isDecoding
    /\ isDecoding' = TRUE
    /\ decodeError' = NullError
    /\ extractedFile' = NullFile
    /\ decodeStatus' = "Decoding..."
    /\ polyglotFile' = decodeFile
    /\ options' = IF isM4aFile THEN executableType ELSE "none"
    /\ captured' = Closure(useAiDecode, isM4aFile, executableType)
    /\ oracleCalls' = 0
    /\ pc' = "decode"
    /\ UNCHANGED <<chatVars, containerFile, hiddenFile, autoConvert, created, offset,
                   splitIndex, payload, boxes, decoded, decodeFile, useAiDecode,
                   isM4aFile, executableType, oracleResponse, aiDecoded,
                   polyglotMode>>

\* `if (!result && useAiDecode)` holds: the status is set and
\* decodePolyglotWithAI runs up to `await ai.models.generateContent(...)`.
OracleCall ==
    /\ pc = "done"
    /\ decoded.file = NullFile /\ captured.useAiDecode
    /\ decodeStatus' = "Standard check failed. Trying AI analysis..."
    /\ oracleCalls' = oracleCalls + 1
    /\ pc' = "oracle"
    /\ UNCHANGED <<chatVars, decodeVars, decodeFile, extractedFile, isDecoding, decodeError,
                   useAiDecode, isM4aFile, executableType, oracleResponse,
                   aiDecoded, captured, polyglotMode>>

\* generateContent settles and decodePolyglotWithAI runs to its end.
OracleReturn ==
    /\ pc = "oracle"
    /\ \E yielded \in OracleResponses :
        /\ oracleResponse' = yielded
        /\ aiDecoded' = decodePolyglotWithAI(polyglotFile.bytes, yielded)
    /\ pc' = "result"
    /\ UNCHANGED <<chatVars, decodeVars, decodeFile, extractedFile, isDecoding, decodeError,
                   useAiDecode, decodeStatus, isM4aFile, executableType,
                   captured, oracleCalls,
                   polyglotMode>>

\* The message set when `result` is null.
notFoundMessage(m4a, type, ai) ==
    IF m4a
    THEN IF type = "exe"
         THEN "Could not find a hidden EXE file in the M4A container. Try the other executable type or AI-assisted decoding."
         ELSE "Could not find a hidden APK file in the M4A container. Try the other executable type or AI-assisted decoding."
    ELSE IF ai
         THEN "AI-assisted decoding could not find a hidden file. The file may not contain hidden data or the format is too complex."
         ELSE "No hidden file found. The file might not be a supported polyglot (e.g. PNG, JPG, GIF container) or it contains no hidden data."

\* handleDecodeFile from `if (result)` to its end with the catch block but
\* without the finally block: isDecoding is cleared on the normal path only.
FinishWithoutFinally ==
    /\ \/ pc = "result"
       \/ pc = "done" /\ ~(decoded.file = NullFile /\ captured.useAiDecode)
    /\ LET Settle(result) ==
            IF result.thrown
            THEN /\ decodeError' = ErrorMessage(result.message)
                 /\ extractedFile' = extractedFile
                 /\ isDecoding' = isDecoding
            ELSE IF result.file # NullFile
            THEN /\ extractedFile' = result.file
                 /\ decodeError' = decodeError
                 /\ isDecoding' = FALSE
            ELSE /\ decodeError' = ErrorMessage(
                        notFoundMessage(captured.isM4aFile, captured.executableType,
                                        captured.useAiDecode))
                 /\ extractedFile' = extractedFile
                 /\ isDecoding' = FALSE
       IN Settle(IF pc = "result" THEN aiDecoded ELSE AiResolved(decoded))
    /\ pc' = "settled"
    /\ UNCHANGED <<chatVars, decodeVars, decodeFile, useAiDecode, decodeStatus, isM4aFile,
                   executableType, oracleResponse, aiDecoded, captured,
                   oracleCalls, polyglotMode>>

\* handleDecodeFile from `if (result)` to its end, the catch and finally
\* blocks included.
Finish ==
    /\ \/ pc = "result"
       \/ pc = "done" /\ ~(decoded.file = NullFile /\ captured.useAiDecode)
    /\ LET Settle(result) ==
            IF result.thrown
            THEN /\ decodeError' = ErrorMessage(result.message)
                 /\ extractedFile' = extractedFile
            ELSE IF result.file # NullFile
            THEN /\ extractedFile' = result.file
                 /\ decodeError' = decodeError
            ELSE /\ decodeError' = ErrorMessage(
                        notFoundMessage(captured.isM4aFile, captured.executableType,
                                        captured.useAiDecode))
                 /\ extractedFile' = extractedFile
       IN Settle(IF pc = "result" THEN aiDecoded ELSE AiResolved(decoded))
    /\ isDecoding' = FALSE
    /\ pc' = "settled"
    /\ UNCHANGED <<chatVars, decodeVars, decodeFile, useAiDecode, decodeStatus, isM4aFile,
                   executableType, oracleResponse, aiDecoded, captured,
                   oracleCalls,
                   polyglotMode>>

NextAI ==
    \/ OnFileSelect
    \/ SetUseAiDecode
    \/ SetExecutableType
    \/ HandleDecodeFile
    \/ DecodeBegin
    \/ M4AWalk
    \/ M4AReturn
    \/ LocateAndClassify
    \/ OracleCall
    \/ OracleReturn
    \/ Finish

SpecAI == InitAI /\ [][NextAI]_vars

\* The continuation of an await whose promise has settled is run by the event
\* loop, and decodePolyglot's own steps run to their end; the oracle's answer
\* is the only step that may never come.
SpecAILive ==
    /\ SpecAI
    /\ WF_vars(DecodeBegin)
    /\ WF_vars(M4AWalk)
    /\ WF_vars(M4AReturn)
    /\ WF_vars(LocateAndClassify)
    /\ WF_vars(OracleCall)
    /\ WF_vars(Finish)

-----------------------------------------------------------------------------
(* The App while a decode is in flight: SpecApp *)

\* The files selected in SpecApp: x.bin, which no locator splits; x.jpg, a
\* JPEG followed by MZ; x.m4a, an ftyp box followed by MZ.
InFlightFiles ==
    { File(<<1, 2, 77, 90, 3>>, <<120, 46, 98, 105, 110>>, <<>>),
      File(<<255, 216, 255, 224, 255, 217, 77, 90>>, <<120, 46, 106, 112, 103>>,
           S_image_jpeg),
      File(Box(8, ftyp, <<>>) \o <<77, 90>>, <<120, 46, 109, 52, 97>>, S_audio_mp4) }

PolyglotModes == {"create", "decode", "convert"}

\* The App as mounted: the Create tab is shown.
InitApp ==
    /\ containerFile = NoFile
    /\ hiddenFile = NoFile
    /\ autoConvert = FALSE
    /\ created = NotCreated
    /\ polyglotFile = NoFile
    /\ options = "none"
    /\ offset = 0
    /\ splitIndex = -1
    /\ payload = <<>>
    /\ boxes = <<>>
    /\ decoded = NotRun
    /\ pc = "idle"
    /\ AppIdle
    /\ polyglotMode = "create"

\* handlePolyglotModeChange(newMode), run by the Create, Convert and Decode
\* buttons, which are shown in every mode.  The state of the create and
\* convert modes is not part of this specification, and the assistant, which
\* the handler closes, is closed throughout it.  The handler has no access
\* to a running handleDecodeFile, which goes on.
HandlePolyglotModeChange ==
    /\ \E newMode \in PolyglotModes : polyglotMode' = newMode
    /\ decodeFile' = NoFile
    /\ extractedFile' = NullFile
    /\ decodeError' = NullError
    /\ isDecoding' = FALSE
    /\ useAiDecode' = TRUE
    /\ decodeStatus' = "Decoding..."
    /\ isM4aFile' = FALSE
    /\ executableType' = "exe"
    /\ UNCHANGED <<chatVars, decodeVars, pc, oracleResponse, aiDecoded, captured,
                   oracleCalls>>

\* FileUpload onFileSelect at any time the decode mode is shown: the
\* FileUpload gets no disabled property.
SelectDecodeFile ==
    /\ polyglotMode = "decode"
    /\ \E file \in InFlightFiles : onFileSelect(file)
    /\ UNCHANGED <<chatVars, decodeVars, pc, isDecoding, useAiDecode, decodeStatus,
                   executableType, oracleResponse, aiDecoded, captured,
                   oracleCalls, polyglotMode>>

\* FileUpload onClear, for a selected file.
OnClear ==
    /\ polyglotMode = "decode"
    /\ decodeFile # NoFile
    /\ decodeFile' = NoFile
    /\ extractedFile' = NullFile
    /\ decodeError' = NullError
    /\ isM4aFile' = FALSE
    /\ UNCHANGED <<chatVars, decodeVars, pc, isDecoding, useAiDecode, decodeStatus,
                   executableType, oracleResponse, aiDecoded, captured,
                   oracleCalls, polyglotMode>>

\* One call of handleDecodeFile per behaviour, and the user's actions at any
\* point of it.
NextApp ==
    \/ HandlePolyglotModeChange
    \/ SelectDecodeFile
    \/ OnClear
    \/ SetUseAiDecode
    \/ HandleDecodeFile
    \/ DecodeBegin
    \/ M4AWalk
    \/ M4AReturn
    \/ LocateAndClassify
    \/ OracleCall
    \/ OracleReturn
    \/ Finish

SpecApp == InitApp /\ [][NextApp]_vars

-----------------------------------------------------------------------------
(* The assistant modal: SpecChat *)

\* "I see you've uploaded a "
S_greeting_head ==
    <<73, 32, 115, 101, 101, 32, 121, 111, 117, 39, 118, 101, 32, 117, 112,
    108, 111, 97, 100, 101, 100, 32, 97, 32>>

\* " file. I can help you understand what kinds of files are best to hide
\* inside it. What would you like to know?"
S_greeting_tail ==
    <<32, 102, 105, 108, 101, 46, 32, 73, 32, 99, 97, 110, 32, 104, 101,
    108, 112, 32, 121, 111, 117, 32, 117, 110, 100, 101, 114, 115, 116,
    97, 110, 100, 32, 119, 104, 97, 116, 32, 107, 105, 110, 100, 115, 32,
    111, 102, 32, 102, 105, 108, 101, 115, 32, 97, 114, 101, 32, 98, 101,
    115, 116, 32, 116, 111, 32, 104, 105, 100, 101, 32, 105, 110, 115,
    105, 100, 101, 32, 105, 116, 46, 32, 87, 104, 97, 116, 32, 119, 111,
    117, 108, 100, 32, 121, 111, 117, 32, 108, 105, 107, 101, 32, 116,
    111, 32, 107, 110, 111, 119, 63>>

\* interface Message
Message(role, content) == [role |-> role, content |-> content]

\* The first message of a new chat.
Greeting(type) == Message("model", S_greeting_head \o type \o S_greeting_tail)

\* WhiteSpace and LineTerminator code units, which trim() removes.
IsWhiteSpace(c) ==
    c \in {9, 10, 11, 12, 13, 32, 160, 5760, 8232, 8233, 8239, 8287, 12288, 65279}
        \cup (8192..8202)

\* String.prototype.trim
trim(str) ==
    LET kept == {i \in 1..Len(str) : ~IsWhiteSpace(str[i])} IN
    IF kept = {} THEN <<>>
    ELSE SubSeq(str, CHOOSE i \in kept : \A j \in kept : i <= j,
                     CHOOSE i \in kept : \A j \in kept : j <= i)

\* prev.filter(m => m.content !== '')
WithContent(prev) == SelectSeq(prev, LAMBDA m : m.content # <<>>)

\* The most calls of handleSend that get past its first line.
MaxSends == 2

\* The most chunks one reply is streamed in.
MaxChunks == 2

\* What the textarea is set to: '', ' ', 'q'.
ChatInputs == { <<>>, <<32>>, <<113>> }

\* The text of a chunk: 'a'.
ChunkTexts == { <<97>> }

\* The container selected in create mode: x.png of type image/png, or x.bin
\* of no type.
ChatContainers ==
    { File(MiniPng, <<120, 46, 112, 110, 103>>, S_image_png),
      File(<<1>>, <<120, 46, 98, 105, 110>>, <<>>) }

\* A call of handleSend: the await it is suspended at, its fullResponse and
\* the chunks it has read.
Send(stage, fullResponse, chunks) ==
    [stage |-> stage, fullResponse |-> fullResponse, chunks |-> chunks]

\* The App in create mode with a container selected and the modal closed.
InitChat ==
    /\ containerFile \in ChatContainers
    /\ hiddenFile = NoFile
    /\ autoConvert = FALSE
    /\ created = NotCreated
    /\ polyglotFile = NoFile
    /\ options = "none"
    /\ offset = 0
    /\ splitIndex = -1
    /\ payload = <<>>
    /\ boxes = <<>>
    /\ decoded = NotRun
    /\ pc = "idle"
    /\ AppIdle
    /\ polyglotMode = "create"

codecVars == <<containerFile, hiddenFile, autoConvert, created, polyglotFile,
               options, offset, splitIndex, payload, boxes, decoded, pc,
               decodeFile, extractedFile, isDecoding, decodeError, useAiDecode,
               decodeStatus, isM4aFile, executableType, oracleResponse,
               aiDecoded, captured, oracleCalls, polyglotMode>>

\* The Ask AI button, setIsAssistantOpen(true), and the effect that follows
\* the render: with no chat, one is created and greeted, or the constructor
\* throws and the error is shown.
OpenAssistant ==
    /\ ~renderError
    /\ ~isOpen
    /\ containerFile # NoFile
    /\ isOpen' = TRUE
    /\ IF chat = NullChat
       THEN \E constructed \in BOOLEAN :
            IF constructed
            THEN /\ chat' = "chat"
                 /\ messages' = <<Greeting(containerFile.type)>>
                 /\ error' = NullError
            ELSE /\ error' = ErrorMessage("Could not initialize the AI assistant. Please check your API key configuration.")
                 /\ UNCHANGED <<chat, messages>>
       ELSE UNCHANGED <<chat, messages, error>>
    /\ UNCHANGED <<codecVars, input, isLoading, sends, renderError>>

\* onClose, setIsAssistantOpen(false), and the effect that follows the
\* render.  A running handleSend is not told.
CloseAssistant ==
    /\ ~renderError
    /\ isOpen
    /\ isOpen' = FALSE
    /\ chat' = NullChat
    /\ messages' = <<>>
    /\ input' = <<>>
    /\ isLoading' = FALSE
    /\ error' = NullError
    /\ UNCHANGED <<codecVars, sends, renderError>>

\* textarea onChange; the textarea is disabled while isLoading.
SetInput ==
    /\ ~renderError
    /\ isOpen
    /\ ~isLoading
    /\ \E value \in ChatInputs : input' = value
    /\ UNCHANGED <<codecVars, isOpen, chat, messages, isLoading, error, sends,
                   renderError>>

\* handleSend up to `await chat.sendMessageStream(...)`.
HandleSend ==
    /\ ~renderError
    /\ isOpen
    /\ ~(trim(input) = <<>> \/ isLoading \/ chat = NullChat)
    /\ Len(sends) < MaxSends
    /\ messages' = Append(messages, Message("user", input))
    /\ input' = <<>>
    /\ isLoading' = TRUE
    /\ error' = NullError
    /\ sends' = Append(sends, Send("request", <<>>, 0))
    /\ UNCHANGED <<codecVars, isOpen, chat, renderError>>

\* sendMessageStream resolves: the empty reply is appended and the loop
\* waits for the first chunk.
StreamOpens ==
    \E i \in 1..Len(sends) :
        /\ ~renderError
        /\ sends[i].stage = "request"
        /\ messages' = Append(messages, Message("model", <<>>))
        /\ sends' = [sends EXCEPT ![i].stage = "stream"]
        /\ UNCHANGED <<codecVars, isOpen, chat, input, isLoading, error, renderError>>

\* A chunk arrives.  The updater writes fullResponse into the last element
\* of the list; on an empty list that element is undefined and the write
\* throws while React renders.
StreamChunk ==
    \E i \in 1..Len(sends) :
        /\ ~renderError
        /\ sends[i].stage = "stream"
        /\ sends[i].chunks < MaxChunks
        /\ \E chunkText \in ChunkTexts :
            LET fullResponse == sends[i].fullResponse \o chunkText IN
            /\ sends' = [sends EXCEPT ![i] = Send("stream", fullResponse, @.chunks + 1)]
            /\ IF messages = <<>>
               THEN renderError' = TRUE /\ UNCHANGED messages
               ELSE /\ messages' = [messages EXCEPT ![Len(messages)].content = fullResponse]
                    /\ UNCHANGED renderError
        /\ UNCHANGED <<codecVars, isOpen, chat, input, isLoading, error>>

\* The stream ends: the finally block.
StreamEnds ==
    \E i \in 1..Len(sends) :
        /\ ~renderError
        /\ sends[i].stage = "stream"
        /\ isLoading' = FALSE
        /\ sends' = [sends EXCEPT ![i].stage = "finished"]
        /\ UNCHANGED <<codecVars, isOpen, chat, messages, input, error, renderError>>

\* sendMessageStream rejects or the stream throws: the catch block and the
\* finally block.
SendFails ==
    \E i \in 1..Len(sends) :
        /\ ~renderError
        /\ sends[i].stage \in {"request", "stream"}
        /\ error' = ErrorMessage("Sorry, I encountered an error. Please try again.")
        /\ messages' = WithContent(messages)
        /\ isLoading' = FALSE
        /\ sends' = [sends EXCEPT ![i].stage = "finished"]
        /\ UNCHANGED <<codecVars, isOpen, chat, input, renderError>>

NextChat ==
    \/ OpenAssistant
    \/ CloseAssistant
    \/ SetInput
    \/ HandleSend
    \/ StreamOpens
    \/ StreamChunk
    \/ StreamEnds
    \/ SendFails

SpecChat == InitChat /\ [][NextChat]_vars

----------------------------------------------------------------------------
(* Properties of the oracle path *)

\* generateContent has answered with the text {"splitIndex":n} and
\* decodePolyglotWithAI has run to its end.
OracleAnswered(n) ==
    /\ pc \in {"result", "settled"}
    /\ oracleResponse = WithText(AnswerText(IndexText(n)))

\* decodePolyglotWithAI resolved to null.
AiNone == aiDecoded.file = NullFile /\ ~aiDecoded.thrown

\* C19: for an oracle answer splitIndex, decodePolyglotWithAI classifies the
\* bytes from splitIndex on with processPayload, as the locator path does,
\* if and only if 0 < splitIndex < length; for 0, -1, a value of at least the
\* length, or a value that is not a number, it resolves to null.
OracleIndexRule ==
    /\ \A n \in -1..MaxOracleIndex :
        OracleAnswered(n) =>
            IF 0 < n /\ n < Len(polyglotFile.bytes)
            THEN /\ aiDecoded = AiResolved(processPayload(sliceFrom(polyglotFile.bytes, n)))
                 /\ aiDecoded.file # NullFile
            ELSE AiNone
    /\ (/\ pc \in {"result", "settled"}
        /\ oracleResponse \in { WithText(AnswerText(t)) : t \in NonNumberTexts })
            => AiNone

\* The oracle answered 2 for the file that holds an envelope at offset 2, and
\* the hidden file "a" came out of the envelope.
OracleIndexRuleWitness ==
    /\ OracleAnswered(2)
    /\ aiDecoded.tier = "envelope"
    /\ aiDecoded.file = DecodedFile(<<7>>, <<97>>, <<116, 47, 120>>)

\* Every message handleDecodeFile sets when the decode result is null.
NotFoundMessages ==
    { notFoundMessage(m4a, type, ai) :
        m4a \in BOOLEAN, type \in {"exe", "apk"}, ai \in BOOLEAN }

\* generateContent was rejected, or its response has no text, or a text that
\* cannot be read as a JSON object.
OracleFailed ==
    /\ pc \in {"result", "settled"}
    /\ \/ oracleResponse \in {Rejected, WithoutText}
       \/ oracleResponse \in { WithText(t) : t \in FailingTexts }

\* C20: when the oracle call fails in transport or its response cannot be
\* parsed, decodePolyglotWithAI throws an Error instead of resolving to null,
\* and handleDecodeFile sets decodeError to that Error's message, which is
\* none of the messages set when the decode result is null.
OracleFailureReported ==
    OracleFailed =>
        /\ aiDecoded.thrown
        /\ aiDecoded.message \notin NotFoundMessages
        /\ pc = "settled" =>
            /\ decodeError = ErrorMessage(aiDecoded.message)
            /\ extractedFile = NullFile
            /\ ~isDecoding

\* generateContent was rejected and the decode has ended with the Error's
\* message shown.
OracleFailureReportedWitness ==
    /\ pc = "settled"
    /\ oracleResponse = Rejected
    /\ decodeError =
        ErrorMessage("The AI model failed to process the file. Please try again.")

----------------------------------------------------------------------------
(* Properties of handleDecodeFile *)

\* C21: the oracle is called only if no locator found a boundary and
\* useAiDecode is set, at most once per decode, after the locators have
\* finished.
OracleOnlyWithoutBoundary ==
    oracleCalls > 0 =>
        /\ oracleCalls = 1
        /\ pc \in {"oracle", "result", "settled"}
        /\ captured.useAiDecode
        /\ splitIndex = -1

\* What does hold: the oracle is called at most once, after decodePolyglot
\* has resolved to null, with useAiDecode set.
OracleOnlyWithoutResult ==
    /\ oracleCalls <= 1
    /\ oracleCalls > 0 =>
        /\ pc \in {"oracle", "result", "settled"}
        /\ captured.useAiDecode
        /\ decoded = Outcome(NullFile, "none", FALSE)

----------------------------------------------------------------------------
(* Properties of the encoder's layout *)

\* createPolyglot has resolved for containerFile and hiddenFile with
\* autoConvert off.
CreatedUnconverted == created.status = "resolved" /\ ~autoConvert

\* C22: with autoConvert off, the blob createPolyglot makes is the container
\* bytes, then the 4-byte big-endian length N of the {name, type} record, then
\* the N bytes of the record, then the hidden bytes; its length is
\* |container| + 4 + N + |hidden|, and newContainerName is the container's
\* name.
EncoderLayout ==
    CreatedUnconverted =>
        LET c == Len(containerFile.bytes)
            n == getUint32(created.blob, c)
        IN /\ slice(created.blob, 0, c) = containerFile.bytes
           /\ n = Len(metadataBufferOf(hiddenFile))
           /\ slice(created.blob, c + 4, c + 4 + n) = metadataBufferOf(hiddenFile)
           /\ sliceFrom(created.blob, c + 4 + n) = hiddenFile.bytes
           /\ Len(created.blob) = c + 4 + n + Len(hiddenFile.bytes)
           /\ created.newContainerName = containerFile.name

\* A blob was made, unconverted, from a container with bytes and a hidden
\* file with bytes whose name takes more bytes than it has code units.
EncoderLayoutWitness ==
    /\ CreatedUnconverted
    /\ containerFile.bytes # <<>>
    /\ hiddenFile.bytes # <<>>
    /\ hiddenFile.name = <<233, 55296>>
    /\ Len(created.blob) > Len(containerFile.bytes) + 4 + Len(hiddenFile.bytes)

----------------------------------------------------------------------------
(* Properties of the ZIP and APK entries *)

S_hidden_file_zip == S_hidden_file_dot \o <<122, 105, 112>>

\* The offset of the first 50 4B 03 04 in the bytes, or -1.
ZipMagicAt(bytes) == findSequence(bytes, <<80, 75, 3, 4>>, 0)

ZipMagicInWindow(bytes) == ZipMagicAt(bytes) # -1 /\ ZipMagicAt(bytes) < 16

\* One of the magics that precede ZIP in the table (PNG, JPEG, GIF87a,
\* GIF89a) first occurs below offset 16.
EarlierMagicInWindow(bytes) ==
    \E magic \in { <<137, 80, 78, 71, 13, 10, 26, 10>>, <<255, 216, 255>>,
                   <<71, 73, 70, 56, 55, 97>>, <<71, 73, 70, 56, 57, 97>> } :
        findSequence(bytes, magic, 0) \in 0..15

\* decodePolyglot has returned what processPayload made of the payload.
PayloadClassified ==
    pc = "done" /\ decoded.tier \in {"envelope", "signature", "generic"}

\* C23 as stated: a classified payload with 50 4B 03 04 in the window is
\* always reported as application/zip under the name hidden-file.zip, and the
\* APK media type is produced only by the M4A path with hint apk.
ApkOnlyByHintAsStated ==
    /\ (PayloadClassified /\ ZipMagicInWindow(payload)) =>
            /\ decoded.file.type = S_application_zip
            /\ decoded.file.name = S_hidden_file_zip
    /\ (pc = "done" /\ decoded.file.type = S_application_apk) =>
            decoded.tier = "m4a" /\ options = "apk"

\* C23: the signature scan never yields the APK entry: a payload that holds
\* no valid envelope, has 50 4B 03 04 in the window and none of the magics
\* that precede ZIP in the table there is reported as application/zip,
\* hidden-file.zip, sliced from the magic; the APK media type is produced
\* only by the M4A path with hint apk or by an envelope whose record names it.
ApkOnlyByHintOrEnvelope ==
    /\ (pc = "done" /\ decoded.tier = "signature") =>
            /\ decoded.file.type # S_application_apk
            /\ decoded.file.name # S_hidden_file_dot \o <<97, 112, 107>>
    /\ (/\ pc = "done" /\ decoded.tier \in {"signature", "generic"}
        /\ ZipMagicInWindow(payload)
        /\ ~EarlierMagicInWindow(payload)) =>
            decoded.file = DecodedFile(sliceFrom(payload, ZipMagicAt(payload)),
                                       S_hidden_file_zip, S_application_zip)
    /\ (pc = "done" /\ decoded.file.type = S_application_apk) =>
            \/ decoded.tier = "m4a" /\ options = "apk"
            \/ decoded.tier = "envelope"

\* The payload 01 50 4B 03 04 located after a JPEG was reported as
\* hidden-file.zip from offset 1.
ApkOnlyByHintOrEnvelopeWitness ==
    /\ pc = "done"
    /\ decoded.tier = "signature"
    /\ payload = <<1, 80, 75, 3, 4>>
    /\ decoded.file = DecodedFile(<<80, 75, 3, 4>>, S_hidden_file_zip, S_application_zip)

----------------------------------------------------------------------------
(* Properties of the GIF locator and of the signature scan *)

\* The indices up to length - 2 at which the byte 3B occurs.
TrailersBeforeLast(bytes) == { i \in 0..(Len(bytes) - 2) : At(bytes, i) = 59 }

\* C24: for every buffer of length L beginning with 47 49 46, the GIF
\* locator's boundary is the greatest index at most L - 2 at which 3B occurs,
\* plus 1; the byte at L - 1 is never taken as the trailer, and no boundary is
\* found when 3B occurs at no index up to L - 2.
GifLocatorRule ==
    (LocatorsRan /\ OccursAt(polyglotFile.bytes, <<71, 73, 70>>, 0)) =>
        LET found == TrailersBeforeLast(polyglotFile.bytes) IN
        /\ splitIndex # Len(polyglotFile.bytes)
        /\ IF found = {} THEN splitIndex = -1
           ELSE /\ splitIndex - 1 \in found
                /\ \A i \in found : i <= splitIndex - 1

\* The locators ran on a GIF with 3B at an index below L - 2 and again at
\* L - 1: the boundary follows the earlier one.
GifLocatorRuleWitness ==
    /\ LocatorsRan
    /\ polyglotFile.bytes = <<71, 73, 70, 59, 1, 59>>
    /\ splitIndex = 4

\* The magic of registry entry t first occurs in the payload at an offset
\* below 16.
EntryInWindow(t) == FirstOccurrence(payload, signatures[t].sig) \in 0..15

\* C25: when the magics of two different registry entries both first occur
\* at offsets below 16 in a payload, the signature scan of processPayload
\* takes the entry that comes earlier in table order, whichever magic is at
\* the smaller offset, and returns the payload sliced from that entry's first
\* occurrence.
ScanPrecedence ==
    (pc = "done" /\ decoded.tier # "envelope") =>
        \A t1 \in 1..Len(signatures), t2 \in 1..Len(signatures) :
            (/\ t1 < t2
             /\ EntryInWindow(t1) /\ EntryInWindow(t2)
             /\ \A u \in 1..(t1 - 1) : ~EntryInWindow(u)) =>
                /\ decoded.tier = "signature"
                /\ decoded.file =
                    DecodedFile(sliceFrom(payload,
                                    FirstOccurrence(payload, signatures[t1].sig)),
                                S_hidden_file_dot \o signatures[t1].ext,
                                signatures[t1].mime)

\* The payload MZ followed by the PNG magic was reported as hidden-file.png,
\* sliced from offset 2.
ScanPrecedenceWitness ==
    /\ pc = "done"
    /\ payload = <<77, 90, 137, 80, 78, 71, 13, 10, 26, 10>>
    /\ decoded.tier = "signature"
    /\ decoded.file = DecodedFile(<<137, 80, 78, 71, 13, 10, 26, 10>>,
                                  S_hidden_file_dot \o <<112, 110, 103>>, S_image_png)

----------------------------------------------------------------------------
(* Properties of every DecodedFile *)

\* The bytes are the last Len(bytes) bytes of the whole.
IsSuffix(bytes, whole) ==
    /\ Len(bytes) <= Len(whole)
    /\ \A i \in 1..Len(bytes) : bytes[i] = whole[Len(whole) - Len(bytes) + i]

\* A DecodedFile that carries at least one byte, whose size is the number of
\* bytes it carries, and whose bytes end the input file.
WellFormedDecodedFile(file) ==
    /\ file.size >= 1
    /\ file.size = Len(file.blob)
    /\ IsSuffix(file.blob, polyglotFile.bytes)

\* C26: every DecodedFile returned by decodePolyglot or decodePolyglotWithAI,
\* through any tier (M4A hint, envelope, signature, generic; located by a
\* marker, a box walk or the oracle), has size >= 1, has size equal to the
\* number of bytes it carries, and carries a contiguous suffix of the input
\* file.
DecodedFileIsSuffix ==
    /\ decoded.file # NullFile => WellFormedDecodedFile(decoded.file)
    /\ aiDecoded.file # NullFile => WellFormedDecodedFile(aiDecoded.file)

\* The oracle answered 2 for the file whose envelope at offset 2 holds no
\* content, and the envelope itself came back as generic binary.
DecodedFileIsSuffixWitness ==
    /\ pc = "settled"
    /\ oracleResponse = WithText(AnswerText(IndexText(2)))
    /\ aiDecoded.tier = "generic"
    /\ aiDecoded.file.blob = sliceFrom(polyglotFile.bytes, 2)
    /\ Len(polyglotFile.bytes) > 20

----------------------------------------------------------------------------
(* Properties of clean containers *)

\* The buffer begins with the PNG header and its only terminal sequence is
\* its last 12 bytes.
CleanPng(bytes) ==
    /\ OccursAt(bytes, <<137, 80, 78, 71>>, 0)
    /\ FirstOccurrence(bytes, IEND) # -1
    /\ FirstOccurrence(bytes, IEND) = Len(bytes) - 12

\* The buffer begins with FF D8 FF and its last FF D9 is its last two bytes.
CleanJpeg(bytes) ==
    /\ OccursAt(bytes, <<255, 216, 255>>, 0)
    /\ LastOccurrence(bytes, <<255, 217>>) # -1
    /\ LastOccurrence(bytes, <<255, 217>>) = Len(bytes) - 2

\* C27: a buffer that begins with the PNG header and ends exactly with its
\* only 12-byte terminal sequence, or that begins FF D8 FF and whose last
\* FF D9 is its final two bytes, makes decodePolyglot return null: the located
\* boundary equals the buffer length and nothing is classified.
CleanContainerNoFile ==
    (pc = "done" /\ (CleanPng(polyglotFile.bytes) \/ CleanJpeg(polyglotFile.bytes))) =>
        /\ splitIndex = Len(polyglotFile.bytes)
        /\ decoded = Outcome(NullFile, "none", FALSE)

\* decodePolyglot returned null for the JPEG FF D8 FF 01 FF D9 FF D9.
CleanContainerNoFileWitness ==
    /\ pc = "done"
    /\ polyglotFile.bytes = <<255, 216, 255, 1, 255, 217, 255, 217>>
    /\ splitIndex = 8
    /\ decoded.file = NullFile


-----------------------------------------------------------------------------
(* C29 *)

\* handleDecodeFile has been started and has not run to its end.
DecodeInFlight == pc \notin {"idle", "settled"}

\* decodePolyglot has returned and the oracle, if it is consulted, has
\* answered or failed.
CallsReturned ==
    \/ pc = "result"
    \/ pc = "done" /\ ~(decoded.file = NullFile /\ captured.useAiDecode)

\* isDecoding is false and exactly one of extractedFile, decodeError is set.
SettledOutcome ==
    /\ ~isDecoding
    /\ (extractedFile # NullFile) # (decodeError # NullError)

\* C29: with no other user action during the decode, isDecoding is true
\* from the start of handleDecodeFile for as long as decodePolyglot or the
\* oracle call has not completed; once both have returned or thrown the
\* handler runs to its end, and there isDecoding is false and exactly one of
\* extractedFile and decodeError is non-null.
DecodeSettles ==
    /\ [](DecodeInFlight => isDecoding)
    /\ []((pc = "settled") => SettledOutcome)
    /\ (CallsReturned ~> (pc = "settled"))

\* A decode that consulted the oracle has ended with an extracted file.
DecodeSettlesWitness ==
    /\ pc = "settled"
    /\ oracleCalls = 1
    /\ extractedFile # NullFile
    /\ decodeError = NullError
    /\ ~isDecoding


-----------------------------------------------------------------------------
(* C28 *)

\* C28: whenever extractedFile is non-null, a file is selected, the mode is
\* decode, and the file that was decoded to produce extractedFile is the
\* selected one, whatever the user does while handleDecodeFile is running.
\* polyglotFile is the file the one handleDecodeFile call of a behaviour
\* passed to decodePolyglot.
ExtractedFromSelected ==
    extractedFile # NullFile =>
        /\ decodeFile # NoFile
        /\ polyglotMode = "decode"
        /\ polyglotFile = decodeFile

\* What holds of a non-null extractedFile: it is the result of the last
\* handleDecodeFile call, for the file that call was started with.
ExtractedFromDecoded ==
    extractedFile # NullFile =>
        /\ pc = "settled"
        /\ extractedFile \in {decoded.file, aiDecoded.file}


-----------------------------------------------------------------------------
(* C30 *)

\* The state the closing effect leaves.
ModalReset ==
    /\ chat = NullChat
    /\ messages = <<>>
    /\ input = <<>>
    /\ ~isLoading
    /\ error = NullError

\* The calls of handleSend that have not reached the end of the handler.
InFlight == {i \in 1..Len(sends) : sends[i].stage # "finished"}

\* C30: while the modal is closed its chat, message list, input, loading
\* flag and error are in their reset state, whatever a reply that was still
\* streaming at the close does afterwards, and at no time is more than one
\* call of handleSend in flight.
ClosedModalStaysReset ==
    /\ ~isOpen => ModalReset
    /\ Cardinality(InFlight) <= 1

\* What holds while the modal is closed: no chat, no input, not loading.
ClosedModalPartlyReset ==
    ~isOpen => chat = NullChat /\ input = <<>> /\ ~isLoading

====
